---- MODULE Spec2Model ----
(***************************************************************************)
(* A model of the TAL chess engine core (src/TAL.py): the GameState        *)
(* position container with FEN parsing and emission, reversible            *)
(* makeMove / undoMove with their parallel logs, the pin and check         *)
(* analyzer, the per-piece move generators, castling generation and the    *)
(* terminal-state classification of getValidMoves; and of the search       *)
(* (src/EVA.py): findBestMove with its mate-in-one pre-check, iterative    *)
(* deepening, root ordering and the minimax recursion with transposition   *)
(* table, null move, principal-variation search, killers and history.      *)
(*                                                                         *)
(* Conventions.  Squares are (row, col) with row 0 = rank 8 and col 0 =    *)
(* file a, as in the source.  The board is a function 0..7 -> 0..7 ->      *)
(* piece code, a piece code being a one-character string.  Text (a FEN     *)
(* string) is a sequence of one-character strings.  The Python empty       *)
(* tuple () is the empty sequence <<>>.                                    *)
(***************************************************************************)
EXTENDS Integers, Sequences, FiniteSets, TLC

VARIABLES
    gs,           \* the GameState object (a record of its attributes)
    valid_moves,  \* the caller's list, as last returned by getValidMoves
    fresh,        \* TRUE iff valid_moves was computed for the current position
    fen_in,       \* the text the GameState was constructed from
    last_op,      \* the call that produced this state
    log_before,   \* len(move_log) when that call was made
    return_queue, \* the Queue handed to findBestMove: the items put, oldest first
    call,         \* the findBestMove call: its position in the code and its locals
    stack,        \* the minimax calls in progress, outermost first
    _tt,          \* EVA._tt: key -> [value, flag]
    _killers,     \* EVA._killers: depth -> the two killer moves
    _history,     \* EVA._history: (depth, start and end square) -> weight
    gs_at_call    \* the GameState as it was when findBestMove was called

search == <<return_queue, call, stack, _tt, _killers, _history, gs_at_call>>

vars == <<gs, valid_moves, fresh, fen_in, last_op, log_before, search>>

(***************************************************************************)
(* Characters and piece codes                                              *)
(***************************************************************************)
UpperPieces == {"P", "N", "B", "R", "Q", "K", "L"}
LowerPieces == {"p", "n", "b", "r", "q", "k", "l"}
Digits == <<"0", "1", "2", "3", "4", "5", "6", "7", "8", "9">>

isupper(ch) == ch \in UpperPieces
islower(ch) == ch \in LowerPieces

upper(ch) ==
    CASE ch = "p" -> "P" [] ch = "n" -> "N" [] ch = "b" -> "B" [] ch = "r" -> "R"
      [] ch = "q" -> "Q" [] ch = "k" -> "K" [] ch = "l" -> "L" [] OTHER -> ch

lower(ch) ==
    CASE ch = "P" -> "p" [] ch = "N" -> "n" [] ch = "B" -> "b" [] ch = "R" -> "r"
      [] ch = "Q" -> "q" [] ch = "K" -> "k" [] ch = "L" -> "l" [] OTHER -> ch

isdigit(ch) == \E i \in 1..10 : Digits[i] = ch

\* int(ch) for a digit character
DigitValue(ch) == (CHOOSE i \in 1..10 : Digits[i] = ch) - 1

\* str(n) for a non-negative integer: its decimal digits
RECURSIVE str(_)
str(n) == IF n < 10 THEN <<Digits[n + 1]>> ELSE str(n \div 10) \o <<Digits[(n % 10) + 1]>>

abs(x) == IF x < 0 THEN -x ELSE x

(***************************************************************************)
(* Text helpers: str.split() on blanks, str.split('/'), ' '.join           *)
(***************************************************************************)
\* text.split(sep): the fields between separators, empty fields kept
RECURSIVE SplitOn(_, _, _, _)
SplitOn(text, sep, i, cur) ==
    IF i > Len(text) THEN <<cur>>
    ELSE IF text[i] = sep THEN <<cur>> \o SplitOn(text, sep, i + 1, <<>>)
    ELSE SplitOn(text, sep, i + 1, Append(cur, text[i]))

\* text.strip().split(): whitespace-separated fields, empty fields dropped
split(text) == SelectSeq(SplitOn(text, " ", 1, <<>>), LAMBDA f : f # <<>>)

\* sep.join(fields)
RECURSIVE join(_, _)
join(sep, fields) ==
    IF fields = <<>> THEN <<>>
    ELSE IF Len(fields) = 1 THEN fields[1]
    ELSE fields[1] \o sep \o join(sep, Tail(fields))

(***************************************************************************)
(* FEN helpers                                                             *)
(***************************************************************************)
\* one rank of the board field: digits expand to that many '-'
RECURSIVE fen_rank(_)
fen_rank(rank) ==
    IF rank = <<>> THEN <<>>
    ELSE IF isdigit(rank[1])
         THEN [i \in 1..DigitValue(rank[1]) |-> "-"] \o fen_rank(Tail(rank))
         ELSE <<rank[1]>> \o fen_rank(Tail(rank))

\* fen_to_board: the 8x8 grid from the first field of the text
fen_to_board(fen) ==
    LET board_part == split(fen)[1]
        rows == SplitOn(board_part, "/", 1, <<>>)
    IN  [r \in 0..7 |-> LET row == fen_rank(rows[r + 1]) IN [c \in 0..7 |-> row[c + 1]]]

\* one row of the grid as FEN text: runs of '-' become their length
RECURSIVE fen_row(_, _, _)
fen_row(row, c, empty) ==
    IF c > 7 THEN (IF empty # 0 THEN str(empty) ELSE <<>>)
    ELSE IF row[c] = "-" THEN fen_row(row, c + 1, empty + 1)
    ELSE (IF empty # 0 THEN str(empty) ELSE <<>>) \o <<row[c]>> \o fen_row(row, c + 1, 0)

\* board_to_fen: the board field of the text
board_to_fen(board) == join(<<"/">>, [r \in 1..8 |-> fen_row(board[r - 1], 0, 0)])

\* Move.cols_to_files / Move.rows_to_ranks
cols_to_files(c) == <<"a", "b", "c", "d", "e", "f", "g", "h">>[c + 1]
rows_to_ranks(r) == Digits[(8 - r) + 1]

\* CastleRights(wks, bks, wqs, bqs)
CastleRights(wks, bks, wqs, bqs) == [wks |-> wks, bks |-> bks, wqs |-> wqs, bqs |-> bqs]

\* getBoardKey: the 64 piece codes in row-major order, then the side to move
getBoardKey(g) ==
    [i \in 1..64 |-> g.board[(i - 1) \div 8][(i - 1) % 8]]
        \o <<IF g.white_to_move THEN "w" ELSE "b">>

\* update_fen: the six-field text of the position (the value of current_fen)
update_fen(g) ==
    LET board_part == board_to_fen(g.board)
        active == IF g.white_to_move THEN <<"w">> ELSE <<"b">>
        cr0 == (IF g.current_castling_rights.wks THEN <<"K">> ELSE <<>>)
                \o (IF g.current_castling_rights.wqs THEN <<"Q">> ELSE <<>>)
                \o (IF g.current_castling_rights.bks THEN <<"k">> ELSE <<>>)
                \o (IF g.current_castling_rights.bqs THEN <<"q">> ELSE <<>>)
        cr == IF cr0 # <<>> THEN cr0 ELSE <<"-">>
        ep == IF g.enpassant_possible # <<>>
              THEN <<cols_to_files(g.enpassant_possible[2]),
                     rows_to_ranks(g.enpassant_possible[1])>>
              ELSE <<"-">>
        half == str(g.fifty_move_counter)
        full == str((Len(g.move_log) \div 2) + 1)
    IN  join(<<" ">>, <<board_part, active, cr, ep, half, full>>)

\* the king squares found by the constructor's scan (the last 'K' and 'k' in
\* row-major order), <<>> when the board holds none
KingScan(board, k) ==
    LET at == {i \in 0..63 : board[i \div 8][i % 8] = k}
    IN  IF at = {} THEN <<>>
        ELSE LET i == CHOOSE j \in at : \A j2 \in at : j2 <= j IN <<i \div 8, i % 8>>

\* GameState.__init__(fen)
NewGameState(fen) ==
    LET parts == split(fen)
        defaults == <<<<"-">>, <<"-">>, <<"0">>, <<"1">>>>
        padded == parts \o [i \in 1..(IF Len(parts) < 6 THEN 6 - Len(parts) ELSE 0)
                              |-> defaults[Len(parts) + i - 2]]
        fields == SubSeq(padded, 1, 6)
        text == join(<<" ">>, fields)
        board == fen_to_board(text)
        g0 == [board |-> board,
               white_king_location |-> KingScan(board, "K"),
               black_king_location |-> KingScan(board, "k"),
               white_to_move |-> (fields[2] = <<"w">>),
               move_log |-> <<>>,
               checkmate |-> FALSE,
               stalemate |-> FALSE,
               in_check |-> FALSE,
               pins |-> <<>>,
               checks |-> <<>>,
               enpassant_possible |-> <<>>,
               enpassant_possible_log |-> << <<>> >>,
               current_castling_rights |-> CastleRights(TRUE, TRUE, TRUE, TRUE),
               castle_rights_log |-> <<CastleRights(TRUE, TRUE, TRUE, TRUE)>>,
               fifty_move_counter |-> 0,
               board_position_counts |-> <<>>,
               fifty_move_log |-> <<>>,
               board_key_log |-> <<>>,
               easter_knights |-> {},
               current_fen |-> <<>>]
    IN  [g0 EXCEPT !.board_position_counts = (getBoardKey(g0) :> 1)]

(***************************************************************************)
(* Move                                                                    *)
(***************************************************************************)
\* Move.__init__(start_square, end_square, board, is_enpassant_move, is_castle_move);
\* promotion_choice is an attribute only the caller sets ("unset": absent)
Move(start_square, end_square, board, is_enpassant_move, is_castle_move) ==
    LET piece_moved == board[start_square[1]][start_square[2]]
        piece_captured0 == board[end_square[1]][end_square[2]]
        piece_captured == IF is_enpassant_move
                          THEN (IF upper(piece_moved) = "P" THEN "p" ELSE "P")
                          ELSE piece_captured0
    IN  [start_row |-> start_square[1], start_col |-> start_square[2],
         end_row |-> end_square[1], end_col |-> end_square[2],
         piece_moved |-> piece_moved,
         piece_captured |-> piece_captured,
         is_pawn_promotion |-> (lower(piece_moved) = "p"
                                /\ (end_square[1] = 0 \/ end_square[1] = 7)),
         is_enpassant_move |-> is_enpassant_move,
         is_castle_move |-> is_castle_move,
         is_capture |-> (piece_captured # "-"),
         moveID |-> start_square[1] * 1000 + start_square[2] * 100
                    + end_square[1] * 10 + end_square[2],
         promotion_choice |-> "unset"]

\* Move.__eq__
MoveEq(m1, m2) == m1.moveID = m2.moveID

\* list.remove(x) on a list of moves: drops the first element equal to x
RECURSIVE RemoveMove(_, _)
RemoveMove(moves, x) ==
    IF moves = <<>> THEN <<>>
    ELSE IF MoveEq(moves[1], x) THEN Tail(moves)
    ELSE <<moves[1]>> \o RemoveMove(Tail(moves), x)

OnBoard(r, c) == 0 <= r /\ r <= 7 /\ 0 <= c /\ c <= 7

(***************************************************************************)
(* Attack / pin analyzer                                                   *)
(***************************************************************************)
Directions8 ==
    << <<-1, 0>>, <<0, -1>>, <<1, 0>>, <<0, 1>>, <<-1, -1>>, <<-1, 1>>, <<1, -1>>, <<1, 1>> >>

KnightMoves ==
    << <<-2, -1>>, <<-2, 1>>, <<-1, 2>>, <<1, 2>>, <<2, -1>>, <<2, 1>>, <<-1, -2>>, <<1, -2>> >>

NoRay == [pins |-> <<>>, checks |-> <<>>]

\* the inner loop of checkForPinsAndChecks for direction index j (0..7), from
\* step i on, with the pin candidate found so far
RECURSIVE ScanRay(_, _, _, _, _, _, _)
ScanRay(board, ally_color, start_row, start_col, j, i, possible_pin) ==
    LET direction == Directions8[j + 1]
        end_row == start_row + direction[1] * i
        end_col == start_col + direction[2] * i
        enemy_color == IF ally_color = "w" THEN "b" ELSE "w"
    IN  IF i > 7 \/ ~OnBoard(end_row, end_col) THEN NoRay
        ELSE
        LET end_piece == board[end_row][end_col] IN
        IF end_piece # "-"
           /\ ((isupper(end_piece) /\ ally_color = "w") \/ (islower(end_piece) /\ ally_color = "b"))
           /\ upper(end_piece) # "K"
        THEN IF possible_pin = <<>>
             THEN ScanRay(board, ally_color, start_row, start_col, j, i + 1,
                          <<end_row, end_col, direction[1], direction[2]>>)
             ELSE NoRay
        ELSE IF end_piece # "-"
                /\ ((isupper(end_piece) /\ enemy_color = "w")
                    \/ (islower(end_piece) /\ enemy_color = "b"))
        THEN LET enemy_type == upper(end_piece) IN
             IF (0 <= j /\ j <= 3 /\ enemy_type = "R")
                \/ (4 <= j /\ j <= 7 /\ enemy_type = "B")
                \/ (i = 1 /\ enemy_type = "P"
                    /\ ((enemy_color = "w" /\ 6 <= j /\ j <= 7)
                        \/ (enemy_color = "b" /\ 4 <= j /\ j <= 5)))
                \/ enemy_type = "Q"
                \/ (i = 1 /\ enemy_type = "K")
             THEN IF possible_pin = <<>>
                  THEN [pins |-> <<>>,
                        checks |-> << <<end_row, end_col, direction[1], direction[2]>> >>]
                  ELSE [pins |-> <<possible_pin>>, checks |-> <<>>]
             ELSE NoRay
        ELSE ScanRay(board, ally_color, start_row, start_col, j, i + 1, possible_pin)

\* the knight loop of checkForPinsAndChecks from offset k on: only the code
\* 'N'/'n' counts as a knight
RECURSIVE KnightChecks(_, _, _, _, _)
KnightChecks(board, enemy_color, start_row, start_col, k) ==
    IF k > 8 THEN <<>>
    ELSE LET end_row == start_row + KnightMoves[k][1]
             end_col == start_col + KnightMoves[k][2]
             end_piece == board[end_row][end_col]
         IN  (IF OnBoard(end_row, end_col)
                 /\ end_piece # "-"
                 /\ ((isupper(end_piece) /\ enemy_color = "w")
                     \/ (islower(end_piece) /\ enemy_color = "b"))
                 /\ upper(end_piece) = "N"
              THEN << <<end_row, end_col, KnightMoves[k][1], KnightMoves[k][2]>> >>
              ELSE <<>>)
             \o KnightChecks(board, enemy_color, start_row, start_col, k + 1)

\* pins.append / checks.append across directions: the lists grow in direction order
JoinRays(a, b) == [pins |-> a.pins \o b.pins, checks |-> a.checks \o b.checks]

\* the direction loop of checkForPinsAndChecks from direction index j on
RECURSIVE Rays(_, _, _, _, _)
Rays(board, ally_color, start_row, start_col, j) ==
    IF j > 7 THEN NoRay
    ELSE JoinRays(ScanRay(board, ally_color, start_row, start_col, j, 1, <<>>),
                  Rays(board, ally_color, start_row, start_col, j + 1))

\* the cached king square of the side to move
KingLocation(g) == IF g.white_to_move THEN g.white_king_location ELSE g.black_king_location

\* the triple checkForPinsAndChecks returns, from what its two loops collected
PinsAndChecks(rays, knight_checks) ==
    [in_check |-> (rays.checks \o knight_checks) # <<>>,
     pins |-> rays.pins,
     checks |-> rays.checks \o knight_checks]

\* checkForPinsAndChecks: (in_check, pins, checks) for the side to move's king
checkForPinsAndChecks(g) ==
    PinsAndChecks(
        Rays(g.board, IF g.white_to_move THEN "w" ELSE "b",
             KingLocation(g)[1], KingLocation(g)[2], 0),
        KnightChecks(g.board, IF g.white_to_move THEN "b" ELSE "w",
                     KingLocation(g)[1], KingLocation(g)[2], 1))

(***************************************************************************)
(* Piece generators.  Each takes the position g, the pin list as it stands *)
(* (self.pins, consumed as the generators run) and the piece's square, and *)
(* yields the moves it appends, in order, and the pin list it leaves.      *)
(***************************************************************************)
\* the pin-lookup loop shared by the generators: the index (1-based) of the
\* last pin on (row, col), 0 when there is none
RECURSIVE PinIndex(_, _, _, _)
PinIndex(pins, i, row, col) ==
    IF i < 1 THEN 0
    ELSE IF pins[i][1] = row /\ pins[i][2] = col THEN i
    ELSE PinIndex(pins, i - 1, row, col)

\* self.pins.remove(x): drops the first element equal to x
RECURSIVE RemovePin(_, _)
RemovePin(pins, x) ==
    IF pins = <<>> THEN <<>>
    ELSE IF pins[1] = x THEN Tail(pins)
    ELSE <<pins[1]>> \o RemovePin(Tail(pins), x)

\* the en-passant discovered-check scan of getPawnMoves: TRUE iff the capture is
\* appended ("not attacking_piece or blocking_piece"); side is -1 for the capture
\* to the left and 1 for the capture to the right
EnPassantAllowed(g, row, col, side) ==
    LET enemy_color == IF g.white_to_move THEN "b" ELSE "w"
        king == IF g.white_to_move THEN g.white_king_location ELSE g.black_king_location
        king_row == king[1]
        king_col == king[2]
        inside_range ==
            IF side = -1
            THEN (IF king_col < col THEN (king_col + 1)..(col - 2) ELSE (col + 1)..(king_col - 1))
            ELSE (IF king_col < col THEN (king_col + 1)..(col - 1) ELSE (col + 2)..(king_col - 1))
        outside_range ==
            IF side = -1
            THEN (IF king_col < col THEN (col + 1)..7 ELSE 0..(col - 2))
            ELSE (IF king_col < col THEN (col + 2)..7 ELSE 0..(col - 1))
        slider(sq) == ((isupper(sq) /\ enemy_color = "w") \/ (islower(sq) /\ enemy_color = "b"))
                      /\ upper(sq) \in {"R", "Q"}
        attacking_piece ==
            king_row = row
            /\ \E i \in outside_range : g.board[row][i] # "-" /\ slider(g.board[row][i])
        blocking_piece ==
            king_row = row
            /\ ((\E i \in inside_range : g.board[row][i] # "-")
                \/ (\E i \in outside_range : g.board[row][i] # "-" /\ ~slider(g.board[row][i])))
    IN  ~attacking_piece \/ blocking_piece

\* getPawnMoves(row, col, moves)
getPawnMoves(g, pins, row, col) ==
    LET pi == PinIndex(pins, Len(pins), row, col)
        piece_pinned == pi # 0
        pin_direction == IF piece_pinned THEN <<pins[pi][3], pins[pi][4]>> ELSE <<>>
        pins1 == IF piece_pinned THEN RemovePin(pins, pins[pi]) ELSE pins
        move_amount == IF g.white_to_move THEN -1 ELSE 1
        start_row == IF g.white_to_move THEN 6 ELSE 1
        enemy(p) == (islower(p) /\ g.white_to_move) \/ (isupper(p) /\ ~g.white_to_move)
        advance ==
            IF g.board[row + move_amount][col] = "-"
               /\ (~piece_pinned \/ pin_direction = <<move_amount, 0>>)
            THEN <<Move(<<row, col>>, <<row + move_amount, col>>, g.board, FALSE, FALSE)>>
                 \o (IF row = start_row /\ g.board[row + 2 * move_amount][col] = "-"
                     THEN <<Move(<<row, col>>, <<row + 2 * move_amount, col>>,
                                 g.board, FALSE, FALSE)>>
                     ELSE <<>>)
            ELSE <<>>
        capture(side) ==
            IF (IF side = -1 THEN col - 1 >= 0 ELSE col + 1 <= 7)
            THEN (IF (~piece_pinned \/ pin_direction = <<move_amount, side>>)
                     /\ g.board[row + move_amount][col + side] # "-"
                     /\ enemy(g.board[row + move_amount][col + side])
                  THEN <<Move(<<row, col>>, <<row + move_amount, col + side>>,
                              g.board, FALSE, FALSE)>>
                  ELSE <<>>)
                 \o (IF <<row + move_amount, col + side>> = g.enpassant_possible
                        /\ EnPassantAllowed(g, row, col, side)
                     THEN <<Move(<<row, col>>, <<row + move_amount, col + side>>,
                                 g.board, TRUE, FALSE)>>
                     ELSE <<>>)
            ELSE <<>>
    IN  [add |-> advance \o capture(-1) \o capture(1), pins |-> pins1]

\* the inner loop of getRookMoves / getBishopMoves along one direction
RECURSIVE Slide(_, _, _, _, _)
Slide(g, row, col, direction, i) ==
    LET end_row == row + direction[1] * i
        end_col == col + direction[2] * i
        enemy_color == IF g.white_to_move THEN "b" ELSE "w"
    IN  IF i > 7 \/ ~OnBoard(end_row, end_col) THEN <<>>
        ELSE LET end_piece == g.board[end_row][end_col] IN
             IF end_piece = "-"
             THEN <<Move(<<row, col>>, <<end_row, end_col>>, g.board, FALSE, FALSE)>>
                  \o Slide(g, row, col, direction, i + 1)
             ELSE IF (IF enemy_color = "w" THEN isupper(end_piece) ELSE islower(end_piece))
             THEN <<Move(<<row, col>>, <<end_row, end_col>>, g.board, FALSE, FALSE)>>
             ELSE <<>>

\* the direction loop shared by getRookMoves and getBishopMoves
RECURSIVE SlideAll(_, _, _, _, _, _, _)
SlideAll(g, row, col, directions, k, piece_pinned, pin_direction) ==
    IF k > Len(directions) THEN <<>>
    ELSE LET direction == directions[k] IN
         (IF ~piece_pinned \/ pin_direction = direction
                \/ pin_direction = <<-direction[1], -direction[2]>>
          THEN Slide(g, row, col, direction, 1)
          ELSE <<>>)
         \o SlideAll(g, row, col, directions, k + 1, piece_pinned, pin_direction)

RookDirections == << <<-1, 0>>, <<0, -1>>, <<1, 0>>, <<0, 1>> >>
BishopDirections == << <<-1, -1>>, <<-1, 1>>, <<1, 1>>, <<1, -1>> >>

\* getRookMoves(row, col, moves): the pin is kept in the list when the piece on
\* the square is a queen
getRookMoves(g, pins, row, col) ==
    LET pi == PinIndex(pins, Len(pins), row, col)
        piece_pinned == pi # 0
        pin_direction == IF piece_pinned THEN <<pins[pi][3], pins[pi][4]>> ELSE <<>>
        pins1 == IF piece_pinned /\ upper(g.board[row][col]) # "Q"
                 THEN RemovePin(pins, pins[pi]) ELSE pins
    IN  [add |-> SlideAll(g, row, col, RookDirections, 1, piece_pinned, pin_direction),
         pins |-> pins1]

\* getBishopMoves(row, col, moves): the pin is always removed
getBishopMoves(g, pins, row, col) ==
    LET pi == PinIndex(pins, Len(pins), row, col)
        piece_pinned == pi # 0
        pin_direction == IF piece_pinned THEN <<pins[pi][3], pins[pi][4]>> ELSE <<>>
        pins1 == IF piece_pinned THEN RemovePin(pins, pins[pi]) ELSE pins
    IN  [add |-> SlideAll(g, row, col, BishopDirections, 1, piece_pinned, pin_direction),
         pins |-> pins1]

\* two generators run one after the other: the moves of both, in order, and the
\* pin list the second leaves
Then(first, second) == [add |-> first.add \o second.add, pins |-> second.pins]

\* the second call of getQueenMoves, on the pin list the bishop call left
QueenRookPart(g, b, row, col) == Then(b, getRookMoves(g, b.pins, row, col))

\* getQueenMoves calling getRookMoves for both of its parts
getQueenMovesRookTwice(g, pins, row, col) ==
    QueenRookPart(g, getRookMoves(g, pins, row, col), row, col)

\* getQueenMoves(row, col, moves): bishop moves first, then rook moves
getQueenMoves(g, pins, row, col) ==
    QueenRookPart(g, getBishopMoves(g, pins, row, col), row, col)

\* "allow move only to empty or opponent-occupied square" (knight and king steps)
EmptyOrOpponent(g, end_piece) ==
    end_piece = "-" \/ (isupper(end_piece) /\ ~g.white_to_move)
                   \/ (islower(end_piece) /\ g.white_to_move)

\* the offset loop of getKnightMoves from offset k on
RECURSIVE KnightLoop(_, _, _, _, _)
KnightLoop(g, row, col, piece_pinned, k) ==
    IF k > 8 THEN <<>>
    ELSE LET end_row == row + KnightMoves[k][1]
             end_col == col + KnightMoves[k][2]
         IN  (IF OnBoard(end_row, end_col) /\ ~piece_pinned
                 /\ EmptyOrOpponent(g, g.board[end_row][end_col])
              THEN <<Move(<<row, col>>, <<end_row, end_col>>, g.board, FALSE, FALSE)>>
              ELSE <<>>) \o KnightLoop(g, row, col, piece_pinned, k + 1)

\* getKnightMoves with every knight taken for pinned: it adds no move
getKnightMovesAllPinned(g, pins, row, col) == [add |-> <<>>, pins |-> pins]

\* getKnightMoves(row, col, moves)
getKnightMoves(g, pins, row, col) ==
    LET pi == PinIndex(pins, Len(pins), row, col)
        piece_pinned == pi # 0
        pins1 == IF piece_pinned THEN RemovePin(pins, pins[pi]) ELSE pins
    IN  [add |-> KnightLoop(g, row, col, piece_pinned, 1), pins |-> pins1]

KingRowMoves == <<-1, -1, -1, 0, 0, 1, 1, 1>>
KingColMoves == <<-1, 0, 1, -1, 1, -1, 0, 1>>

\* the step loop of getKingMoves from step i on: each step is probed with the
\* cached king location set to the target square
RECURSIVE KingLoop(_, _, _, _)
KingLoop(g, row, col, i) ==
    IF i > 8 THEN <<>>
    ELSE LET ally_color == IF g.white_to_move THEN "w" ELSE "b"
             end_row == row + KingRowMoves[i]
             end_col == col + KingColMoves[i]
             probe == IF ally_color = "w"
                      THEN [g EXCEPT !.white_king_location = <<end_row, end_col>>]
                      ELSE [g EXCEPT !.black_king_location = <<end_row, end_col>>]
         IN  (IF OnBoard(end_row, end_col)
                 /\ EmptyOrOpponent(g, g.board[end_row][end_col])
                 /\ ~checkForPinsAndChecks(probe).in_check
              THEN <<Move(<<row, col>>, <<end_row, end_col>>, g.board, FALSE, FALSE)>>
              ELSE <<>>) \o KingLoop(g, row, col, i + 1)

\* getKingMoves(row, col, moves); after each probe the cached king location is
\* put back to (row, col), the square the king stands on
getKingMoves(g, pins, row, col) ==
    [add |-> KingLoop(g, row, col, 1), pins |-> pins]

\* self.moveFunctions[piece.lower()](r, c, moves)
moveFunctions(g, pins, r, c) ==
    LET key == lower(g.board[r][c])
    IN  CASE key = "p" -> getPawnMoves(g, pins, r, c)
          [] key = "r" -> getRookMoves(g, pins, r, c)
          [] key = "n" -> getKnightMoves(g, pins, r, c)
          [] key = "b" -> getBishopMoves(g, pins, r, c)
          [] key = "q" -> getQueenMoves(g, pins, r, c)
          [] key = "k" -> getKingMoves(g, pins, r, c)
          [] key = "l" -> getKnightMoves(g, pins, r, c)

\* the inner loop of getAllPossibleMoves ("for c in range(8)") for row r from
\* column c on, with the pin list as it stands: the moves appended, in order,
\* and the pin list left
RECURSIVE RowFrom(_, _, _, _)
RECURSIVE RowAfter(_, _, _, _)
RowFrom(g, pins, r, c) ==
    IF c > 7 THEN [add |-> <<>>, pins |-> pins]
    ELSE IF g.board[r][c] # "-"
            /\ ((isupper(g.board[r][c]) /\ g.white_to_move)
                \/ (islower(g.board[r][c]) /\ ~g.white_to_move))
         THEN RowAfter(g, moveFunctions(g, pins, r, c), r, c)
         ELSE RowFrom(g, pins, r, c + 1)

\* the rest of the row after the generator for square (r, c) has run
RowAfter(g, one, r, c) == Then(one, RowFrom(g, one.pins, r, c + 1))

\* the outer loop of getAllPossibleMoves ("for r in range(8)") from row r on
RECURSIVE AllFrom(_, _, _)
RECURSIVE AllAfter(_, _, _)
AllFrom(g, pins, r) ==
    IF r > 7 THEN [add |-> <<>>, pins |-> pins]
    ELSE AllAfter(g, RowFrom(g, pins, r, 0), r)

\* the rest of the board after row r has been visited
AllAfter(g, row, r) == Then(row, AllFrom(g, row.pins, r + 1))

\* getAllPossibleMoves: the pseudo-legal moves of the side to move (add) and the
\* pin list the generators leave
getAllPossibleMoves(g) == AllFrom(g, g.pins, 0)

(***************************************************************************)
(* Tactical probes and castling                                            *)
(***************************************************************************)
\* "for move in opponents_moves: if move.end_row == row and move.end_col == col"
EndsOn(moves, row, col) ==
    \E i \in 1..Len(moves) : moves[i].end_row = row /\ moves[i].end_col = col

\* squareUnderAttack(row, col): the side to move is flipped, the opponent's
\* pseudo-legal moves are generated, and the side is flipped back.  The
\* generators run for the opponent's pieces only, whose squares are never in
\* self.pins (pins are squares of the side to move), so the probe leaves the
\* pin list as it found it; the king cache is put back by getKingMoves.
squareUnderAttack(g, row, col) ==
    EndsOn(getAllPossibleMoves([g EXCEPT !.white_to_move = ~@]).add, row, col)

\* inCheck()
inCheck(g) == squareUnderAttack(g, KingLocation(g)[1], KingLocation(g)[2])

\* "squareUnderAttack(r, c1) or squareUnderAttack(r, c2) or ...", left to right
RECURSIVE AnyUnderAttack(_, _, _)
AnyUnderAttack(g, row, cols) ==
    IF cols = <<>> THEN FALSE
    ELSE squareUnderAttack(g, row, cols[1]) \/ AnyUnderAttack(g, row, Tail(cols))

\* getKingsideCastleMoves(row, col, moves).  The source spells the white and the
\* black case out; they differ in the home rank (7 / 0), the rook code and the
\* right tested, which are taken here from the side to move.
getKingsideCastleMoves(g, row, col) ==
    LET home == IF g.white_to_move THEN 7 ELSE 0
        rook == IF g.white_to_move THEN "R" ELSE "r"
        right == IF g.white_to_move THEN g.current_castling_rights.wks
                                    ELSE g.current_castling_rights.bks
    IN  IF row # home \/ col # 4 THEN <<>>
        ELSE IF g.board[home][7] # rook THEN <<>>
        ELSE IF ~right THEN <<>>
        ELSE IF g.board[home][5] # "-" \/ g.board[home][6] # "-" THEN <<>>
        ELSE IF AnyUnderAttack(g, home, <<4, 5, 6>>) THEN <<>>
        ELSE <<Move(<<home, 4>>, <<home, 6>>, g.board, FALSE, TRUE)>>

\* getQueensideCastleMoves(row, col, moves), written like the kingside one
getQueensideCastleMoves(g, row, col) ==
    LET home == IF g.white_to_move THEN 7 ELSE 0
        rook == IF g.white_to_move THEN "R" ELSE "r"
        right == IF g.white_to_move THEN g.current_castling_rights.wqs
                                    ELSE g.current_castling_rights.bqs
    IN  IF row # home \/ col # 4 THEN <<>>
        ELSE IF g.board[home][0] # rook THEN <<>>
        ELSE IF ~right THEN <<>>
        ELSE IF g.board[home][1] # "-" \/ g.board[home][2] # "-" \/ g.board[home][3] # "-"
             THEN <<>>
        ELSE IF AnyUnderAttack(g, home, <<4, 3, 2>>) THEN <<>>
        ELSE <<Move(<<home, 4>>, <<home, 2>>, g.board, FALSE, TRUE)>>

\* getCastleMoves(row, col, moves): the castle moves it appends
getCastleMoves(g, row, col) ==
    IF squareUnderAttack(g, row, col) THEN <<>>
    ELSE (IF (g.white_to_move /\ g.current_castling_rights.wks)
             \/ (~g.white_to_move /\ g.current_castling_rights.bks)
          THEN getKingsideCastleMoves(g, row, col) ELSE <<>>)
         \o (IF (g.white_to_move /\ g.current_castling_rights.wqs)
                \/ (~g.white_to_move /\ g.current_castling_rights.bqs)
             THEN getQueensideCastleMoves(g, row, col) ELSE <<>>)

(***************************************************************************)
(* Draw detection                                                          *)
(***************************************************************************)
\* checkThreefoldRepetition
checkThreefoldRepetition(g) ==
    \E key \in DOMAIN g.board_position_counts : g.board_position_counts[key] >= 3

\* the pieces on the board other than kings, in row-major order
NonKing(board) ==
    SelectSeq([i \in 1..64 |-> board[(i - 1) \div 8][(i - 1) % 8]],
              LAMBDA pc : pc # "-" /\ upper(pc) # "K")

\* insufficientMaterial
insufficientMaterial(g) ==
    LET non_king == NonKing(g.board)
    IN  IF non_king = <<>> THEN TRUE
        ELSE IF Len(non_king) = 1 /\ upper(non_king[1]) \in {"N", "B"} THEN TRUE
        ELSE IF Len(non_king) = 2 /\ \A i \in 1..2 : upper(non_king[i]) = "N" THEN TRUE
        ELSE FALSE

(***************************************************************************)
(* getValidMoves                                                           *)
(***************************************************************************)
\* the squares a non-king move must land on to answer the single check
RECURSIVE ValidSquares(_, _, _, _)
ValidSquares(king_row, king_col, check, i) ==
    IF i > 7 THEN <<>>
    ELSE LET valid_square == <<king_row + check[3] * i, king_col + check[4] * i>>
         IN  IF valid_square[1] = check[1] /\ valid_square[2] = check[2]
             THEN <<valid_square>>
             ELSE <<valid_square>> \o ValidSquares(king_row, king_col, check, i + 1)

\* the filter loop of the single-check branch: i runs from the end of the list
\* down, and list.remove drops the first move equal to moves[i]
RECURSIVE FilterCheck(_, _, _)
FilterCheck(moves, i, valid_squares) ==
    IF i < 1 THEN moves
    ELSE IF upper(moves[i].piece_moved) # "K"
            /\ ~(\E k \in 1..Len(valid_squares) :
                    valid_squares[k] = <<moves[i].end_row, moves[i].end_col>>)
         THEN FilterCheck(RemoveMove(moves, moves[i]), i - 1, valid_squares)
         ELSE FilterCheck(moves, i - 1, valid_squares)

\* getValidMoves, the single-check branch: all pseudo-legal moves, then the
\* filter; yields the list and the pin list the generators leave
SingleCheckMoves(g, all, king_row, king_col) ==
    LET check == g.checks[1]
        piece_checking == g.board[check[1]][check[2]]
        valid_squares ==
            IF upper(piece_checking) = "N" THEN << <<check[1], check[2]>> >>
            ELSE ValidSquares(king_row, king_col, check, 1)
    IN  [moves |-> FilterCheck(all.add, Len(all.add), valid_squares),
         pins |-> all.pins]

\* getValidMoves, the branch without check: all pseudo-legal moves, then the
\* castle moves (generated with the pin list the generators left)
NoCheckMoves(g, all, king_row, king_col) ==
    [moves |-> all.add \o getCastleMoves([g EXCEPT !.pins = all.pins], king_row, king_col),
     pins |-> all.pins]

\* getValidMoves, generation: the three branches on in_check and len(checks)
GenerateMoves(g, king_row, king_col) ==
    IF g.in_check
    THEN IF Len(g.checks) = 1
         THEN SingleCheckMoves(g, getAllPossibleMoves(g), king_row, king_col)
         ELSE [moves |-> getKingMoves(g, g.pins, king_row, king_col).add, pins |-> g.pins]
    ELSE NoCheckMoves(g, getAllPossibleMoves(g), king_row, king_col)

\* a variant of NoMoves that flags stalemate whether or not the king is attacked
NoMovesStalemateOnly(g, in_check, temp_castle_rights) ==
    [g |-> [g EXCEPT !.stalemate = TRUE,
                     !.current_castling_rights = temp_castle_rights],
     moves |-> <<>>]

\* getValidMoves, the branch "len(moves) == 0": checkmate if inCheck() says so,
\* stalemate otherwise; the other flag is left as it was
NoMoves(g, in_check, temp_castle_rights) ==
    [g |-> [g EXCEPT !.checkmate = IF in_check THEN TRUE ELSE @,
                     !.stalemate = IF in_check THEN @ ELSE TRUE,
                     !.current_castling_rights = temp_castle_rights],
     moves |-> <<>>]

\* a variant of ClassifyMoves without the three draw tests
ClassifyMovesNoDraw(g, moves, temp_castle_rights) ==
    IF Len(moves) = 0
    THEN NoMoves(g, inCheck(g), temp_castle_rights)
    ELSE [g |-> [g EXCEPT !.checkmate = FALSE, !.stalemate = FALSE,
                          !.current_castling_rights = temp_castle_rights],
          moves |-> moves]

\* getValidMoves, classification: the king-capture filter has run (moves), and
\* the flags are set; current_castling_rights is assigned the saved copy on
\* every path.  Yields the GameState left and the list returned.
ClassifyMoves(g, moves, temp_castle_rights) ==
    IF Len(moves) = 0
    THEN NoMoves(g, inCheck(g), temp_castle_rights)
    ELSE IF insufficientMaterial(g) \/ checkThreefoldRepetition(g)
            \/ g.fifty_move_counter >= 100
    THEN [g |-> [g EXCEPT !.checkmate = FALSE, !.stalemate = TRUE,
                          !.current_castling_rights = temp_castle_rights],
          moves |-> <<>>]
    ELSE [g |-> [g EXCEPT !.checkmate = FALSE, !.stalemate = FALSE,
                          !.current_castling_rights = temp_castle_rights],
          moves |-> moves]

\* "filter out any move that would capture a king"
KingCaptureFilter(moves) == SelectSeq(moves, LAMBDA m : upper(m.piece_captured) # "K")

\* getValidMoves, after generation: self.pins is what the generators left
AfterGenerate(g, gen, temp_castle_rights) ==
    ClassifyMoves([g EXCEPT !.pins = gen.pins], KingCaptureFilter(gen.moves),
                  temp_castle_rights)

\* getValidMoves, after the analyzer has run
AfterAnalysis(g, king, temp_castle_rights) ==
    AfterGenerate(g, GenerateMoves(g, king[1], king[2]), temp_castle_rights)

\* getValidMoves: the GameState it leaves and the list it returns
WithAnalysis(g, pc) ==
    [g EXCEPT !.in_check = pc.in_check, !.pins = pc.pins, !.checks = pc.checks]

getValidMoves(g) ==
    AfterAnalysis(WithAnalysis(g, checkForPinsAndChecks(g)),
                  KingLocation(g),
                  CastleRights(g.current_castling_rights.wks, g.current_castling_rights.bks,
                               g.current_castling_rights.wqs, g.current_castling_rights.bqs))

(***************************************************************************)
(* makeMove / undoMove                                                     *)
(***************************************************************************)
\* seq.pop() leaves the sequence without its last element and yields the last
Front(seq) == SubSeq(seq, 1, Len(seq) - 1)
Last(seq) == seq[Len(seq)]

\* updateFiftyMoveCounter(move)
updateFiftyMoveCounter(g, move) ==
    [g EXCEPT !.fifty_move_log = Append(@, g.fifty_move_counter),
              !.fifty_move_counter = IF lower(move.piece_moved) = "p" \/ move.is_capture
                                     THEN 0 ELSE @ + 1]

\* updateRepetition
updateRepetition(g) ==
    LET key == getBoardKey(g)
    IN  [g EXCEPT !.board_key_log = Append(@, key),
                  !.board_position_counts =
                      IF key \in DOMAIN @ THEN [@ EXCEPT ![key] = @ + 1]
                      ELSE (key :> 1) @@ @]

\* the piece a promoting pawn turns into: getattr(move, "promotion_choice", "Q"),
\* a knight getting the code 'L' / 'l'
Promoted(move) ==
    LET promo == IF move.promotion_choice = "unset" THEN "Q" ELSE move.promotion_choice
    IN  IF upper(promo) = "N"
        THEN (IF isupper(move.piece_moved) THEN "L" ELSE "l")
        ELSE (IF isupper(move.piece_moved) THEN upper(promo) ELSE lower(promo))

\* makeMove up to the castle block with the king cache left as it was
MakeMoveHeadStaleKings(g, move) ==
    LET b1 == [g.board EXCEPT ![move.start_row][move.start_col] = "-"]
        b2 == [b1 EXCEPT ![move.end_row][move.end_col] = move.piece_moved]
        b3 == IF move.is_pawn_promotion
              THEN [b2 EXCEPT ![move.end_row][move.end_col] = Promoted(move)] ELSE b2
        b4 == IF move.is_enpassant_move
              THEN [b3 EXCEPT ![move.start_row][move.end_col] = "-"] ELSE b3
    IN  [g EXCEPT
            !.board = b4,
            !.move_log = Append(@, move),
            !.white_to_move = ~@,
            !.easter_knights = @ \ {<<move.end_row, move.end_col>>},
            !.enpassant_possible =
                IF lower(move.piece_moved) = "p" /\ abs(move.start_row - move.end_row) = 2
                THEN <<(move.start_row + move.end_row) \div 2, move.start_col>>
                ELSE <<>>]

\* makeMove up to the castle block with the en-passant target set by a
\* two-square pawn advance and never cleared
MakeMoveHeadKeepsTarget(g, move) ==
    LET b1 == [g.board EXCEPT ![move.start_row][move.start_col] = "-"]
        b2 == [b1 EXCEPT ![move.end_row][move.end_col] = move.piece_moved]
        b3 == IF move.is_pawn_promotion
              THEN [b2 EXCEPT ![move.end_row][move.end_col] = Promoted(move)] ELSE b2
        b4 == IF move.is_enpassant_move
              THEN [b3 EXCEPT ![move.start_row][move.end_col] = "-"] ELSE b3
    IN  [g EXCEPT
            !.board = b4,
            !.move_log = Append(@, move),
            !.white_to_move = ~@,
            !.white_king_location =
                IF move.piece_moved = "K" THEN <<move.end_row, move.end_col>> ELSE @,
            !.black_king_location =
                IF move.piece_moved = "k" THEN <<move.end_row, move.end_col>> ELSE @,
            !.easter_knights = @ \ {<<move.end_row, move.end_col>>},
            !.enpassant_possible =
                IF lower(move.piece_moved) = "p" /\ abs(move.start_row - move.end_row) = 2
                THEN <<(move.start_row + move.end_row) \div 2, move.start_col>>
                ELSE @]

\* makeMove up to (not including) the castle block: relocation, move log, side
\* flip, king cache, promotion, en-passant removal, en-passant target
MakeMoveHead(g, move) ==
    LET b1 == [g.board EXCEPT ![move.start_row][move.start_col] = "-"]
        b2 == [b1 EXCEPT ![move.end_row][move.end_col] = move.piece_moved]
        b3 == IF move.is_pawn_promotion
              THEN [b2 EXCEPT ![move.end_row][move.end_col] = Promoted(move)] ELSE b2
        b4 == IF move.is_enpassant_move
              THEN [b3 EXCEPT ![move.start_row][move.end_col] = "-"] ELSE b3
    IN  [g EXCEPT
            !.board = b4,
            !.move_log = Append(@, move),
            !.white_to_move = ~@,
            !.white_king_location =
                IF move.piece_moved = "K" THEN <<move.end_row, move.end_col>> ELSE @,
            !.black_king_location =
                IF move.piece_moved = "k" THEN <<move.end_row, move.end_col>> ELSE @,
            !.easter_knights = @ \ {<<move.end_row, move.end_col>>},
            !.enpassant_possible =
                IF lower(move.piece_moved) = "p" /\ abs(move.start_row - move.end_row) = 2
                THEN <<(move.start_row + move.end_row) \div 2, move.start_col>>
                ELSE <<>>]

\* self.update_fen(): current_fen is the text of the position
WithFen(g) == [g EXCEPT !.current_fen = update_fen(g)]

\* "Track moved promoted knights": a tracked knight's marker follows it
TrackKnight(g, move) ==
    IF upper(move.piece_moved) = "N"
       /\ <<move.start_row, move.start_col>> \in g.easter_knights
    THEN [g EXCEPT !.easter_knights =
            (@ \ {<<move.start_row, move.start_col>>}) \cup {<<move.end_row, move.end_col>>}]
    ELSE g

\* the en-passant log and the castling-rights log each get an entry
PushLogs(g) ==
    [g EXCEPT
        !.enpassant_possible_log = Append(@, g.enpassant_possible),
        !.castle_rights_log =
            Append(@, CastleRights(g.current_castling_rights.wks,
                                   g.current_castling_rights.bks,
                                   g.current_castling_rights.wqs,
                                   g.current_castling_rights.bqs))]

\* makeMove from the log pushes on: easter-knight tracking, en-passant log,
\* castling-rights log (a copy of the current rights, which nothing revokes:
\* updateCastleRights is never called), fifty-move counter, repetition, FEN
MakeMoveTail(g, move) ==
    WithFen(updateRepetition(updateFiftyMoveCounter(PushLogs(TrackKnight(g, move)), move)))

\* makeMove, the castle block and what follows it, h being the GameState the
\* statements before it left: each of the three early returns leaves h as it is
\* (no log is pushed, current_fen is not updated)
MakeMoveCastle(h, move, dr, r, src_rook_col, dst_rook_col) ==
    IF move.piece_moved \notin {"K", "k"} THEN h
    ELSE IF dr # 2 /\ dr # -2 THEN h
    ELSE IF ~(0 <= r /\ r < 8 /\ 0 <= src_rook_col /\ src_rook_col < 8
              /\ 0 <= dst_rook_col /\ dst_rook_col < 8) THEN h
    ELSE MakeMoveTail(
            [h EXCEPT !.board =
                [[h.board EXCEPT ![r][dst_rook_col] = h.board[r][src_rook_col]]
                     EXCEPT ![r][src_rook_col] = "-"]],
            move)

\* makeMove(move)
makeMove(g, move) ==
    IF move.is_castle_move
    THEN MakeMoveCastle(MakeMoveHead(g, move), move, move.end_col - move.start_col,
                        move.end_row,
                        IF move.end_col - move.start_col = 2
                        THEN move.end_col + 1 ELSE move.end_col - 2,
                        IF move.end_col - move.start_col = 2
                        THEN move.end_col - 1 ELSE move.end_col + 1)
    ELSE MakeMoveTail(MakeMoveHead(g, move), move)

\* undoMove, "Revert repetition count": the last key is popped and its count
\* decremented, the entry removed when the count was at most 1
UndoRepetition(g, last_key) ==
    [g EXCEPT
        !.board_key_log = Front(@),
        !.board_position_counts =
            IF (IF last_key \in DOMAIN @ THEN @[last_key] ELSE 0) <= 1
            THEN [k \in (DOMAIN @) \ {last_key} |-> @[k]]
            ELSE [@ EXCEPT ![last_key] = @ - 1]]

\* undoMove, "Revert fifty-move counter"
UndoFifty(g) ==
    IF g.fifty_move_log # <<>>
    THEN [g EXCEPT !.fifty_move_counter = Last(g.fifty_move_log),
                   !.fifty_move_log = Front(@)]
    ELSE g

\* undoMove, the board after the popped move is taken back: the piece returns to
\* its start square, the destination gets move.piece_captured, an en-passant
\* capture empties the landing square and puts move.piece_captured beside the
\* start square
UndoRelocation(board, move) ==
    IF move.is_enpassant_move
    THEN [board EXCEPT ![move.start_row][move.start_col] = move.piece_moved,
                       ![move.end_row][move.end_col] = "-",
                       ![move.start_row][move.end_col] = move.piece_captured]
    ELSE [[board EXCEPT ![move.start_row][move.start_col] = move.piece_moved]
                 EXCEPT ![move.end_row][move.end_col] = move.piece_captured]

\* undoMove, the rook slide of a castle reversed (src: where the rook sits)
UndoRookSlide(board, move, r, src, dst) ==
    IF move.is_castle_move /\ move.piece_moved \in {"K", "k"}
       /\ (move.end_col - move.start_col = 2 \/ move.end_col - move.start_col = -2)
       /\ 0 <= r /\ r < 8 /\ 0 <= src /\ src < 8 /\ 0 <= dst /\ dst < 8
    THEN [[board EXCEPT ![r][dst] = board[r][src]] EXCEPT ![r][src] = "-"]
    ELSE board

\* undoMove from "move = self.move_log.pop()" to the flag reset
UndoLast(g, move) ==
    [g EXCEPT
        !.move_log = Front(@),
        !.board = UndoRookSlide(UndoRelocation(@, move), move, move.end_row,
                      IF move.end_col - move.start_col = 2
                      THEN move.end_col - 1 ELSE move.end_col + 1,
                      IF move.end_col - move.start_col = 2
                      THEN move.end_col + 1 ELSE move.end_col - 2),
        !.white_to_move = ~@,
        !.white_king_location =
            IF move.piece_moved = "K" THEN <<move.start_row, move.start_col>> ELSE @,
        !.black_king_location =
            IF move.piece_moved = "k" THEN <<move.start_row, move.start_col>> ELSE @,
        !.enpassant_possible_log = Front(@),
        !.enpassant_possible = Last(Front(g.enpassant_possible_log)),
        !.castle_rights_log = Front(@),
        !.current_castling_rights = Last(Front(g.castle_rights_log)),
        !.checkmate = FALSE,
        !.stalemate = FALSE]

\* undoMove, everything after the early return
UndoBody(g) == WithFen(UndoLast(g, Last(g.move_log)))

\* a variant of undoMove that resets the flags before testing the history
undoMoveResetsFlagsFirst(g) ==
    IF g.move_log = <<>> THEN [g EXCEPT !.checkmate = FALSE, !.stalemate = FALSE]
    ELSE UndoBody(UndoFifty(IF g.board_key_log # <<>>
                            THEN UndoRepetition(g, Last(g.board_key_log))
                            ELSE g))

\* undoMove()
undoMove(g) ==
    IF g.move_log = <<>> THEN g
    ELSE UndoBody(UndoFifty(IF g.board_key_log # <<>>
                            THEN UndoRepetition(g, Last(g.board_key_log))
                            ELSE g))

(***************************************************************************)
(* EVA (src/EVA.py): material scores, piece-square tables and the leaf     *)
(* evaluation of minimax.  Scores are from White's perspective.            *)
(***************************************************************************)
piece_score(pt) ==
    CASE pt = "P" -> 100 [] pt = "N" -> 300 [] pt = "B" -> 320 [] pt = "R" -> 500
      [] pt = "Q" -> 900 [] pt = "K" -> 0 [] pt = "L" -> 300

pawn_table ==
    << <<0, 0, 0, 0, 0, 0, 0, 0>>,
       <<50, 50, 50, 50, 50, 50, 50, 50>>,
       <<10, 10, 20, 30, 30, 20, 10, 10>>,
       <<5, 5, 10, 25, 25, 10, 5, 5>>,
       <<0, 0, 0, 20, 20, 0, 0, 0>>,
       <<5, -5, -10, 0, 0, -10, -5, 5>>,
       <<5, 10, 10, -20, -20, 10, 10, 5>>,
       <<0, 0, 0, 0, 0, 0, 0, 0>> >>

knight_table ==
    << <<-50, -40, -30, -30, -30, -30, -40, -50>>,
       <<-40, -20, 0, 0, 0, 0, -20, -40>>,
       <<-30, 0, 10, 15, 15, 10, 0, -30>>,
       <<-30, 5, 15, 20, 20, 15, 5, -30>>,
       <<-30, 0, 15, 20, 20, 15, 0, -30>>,
       <<-30, 5, 10, 15, 15, 10, 5, -30>>,
       <<-40, -20, 0, 5, 5, 0, -20, -40>>,
       <<-50, -40, -30, -30, -30, -30, -40, -50>> >>

bishop_table ==
    << <<-20, -10, -10, -10, -10, -10, -10, -20>>,
       <<-10, 0, 0, 0, 0, 0, 0, -10>>,
       <<-10, 0, 5, 5, 5, 5, 0, -10>>,
       <<-10, 0, 5, 10, 10, 5, 0, -10>>,
       <<-10, 0, 5, 10, 10, 5, 0, -10>>,
       <<-10, 0, 5, 5, 5, 5, 0, -10>>,
       <<-10, 0, 0, 0, 0, 0, 0, -10>>,
       <<-20, -10, -10, -10, -10, -10, -10, -20>> >>

rook_table ==
    << <<0, 0, 0, 0, 0, 0, 0, 0>>,
       <<20, 20, 20, 20, 20, 20, 20, 10>>,
       <<-10, -5, -5, -5, -5, -5, -5, -10>>,
       <<-10, -5, -5, 0, 0, -5, -5, -10>>,
       <<-10, -5, -5, 0, 0, -5, -5, -10>>,
       <<-10, -5, -5, -5, -5, -5, -5, -10>>,
       <<-10, -5, -5, -5, -5, -5, -5, -10>>,
       <<0, 0, 10, 10, 10, 10, 10, 0>> >>

queen_table ==
    << <<-20, -10, -5, 0, 0, 0, -10, -20>>,
       <<-10, 0, 5, 10, 10, 5, 0, -10>>,
       <<-5, 5, 15, 20, 20, 15, 5, -5>>,
       <<0, 10, 20, 20, 20, 20, 10, 0>>,
       <<0, 10, 20, 20, 20, 20, 10, 0>>,
       <<-5, 5, 15, 20, 20, 15, 5, -5>>,
       <<-10, 0, 5, 10, 10, 5, 0, -10>>,
       <<-20, -10, -5, 0, 0, 0, -10, -20>> >>

king_table ==
    << <<-80, -70, -70, -70, -70, -70, -70, -80>>,
       <<-60, -60, -60, -60, -60, -60, -60, -60>>,
       <<-40, -50, -50, -60, -60, -50, -50, -40>>,
       <<-30, -40, -40, -50, -50, -40, -40, -30>>,
       <<-20, -30, -30, -40, -40, -30, -30, -20>>,
       <<-10, -20, -20, -20, -20, -20, -20, -10>>,
       <<20, 20, -5, -5, -5, -5, 20, 20>>,
       <<20, 30, 10, 0, 0, 10, 30, 20>> >>

king_endgame_table ==
    << <<-20, -10, -10, -10, -10, -10, -10, -20>>,
       <<-5, 0, 5, 5, 5, 5, 0, -5>>,
       <<-10, -5, 20, 30, 30, 20, -5, -10>>,
       <<-15, -10, 35, 45, 45, 35, -10, -15>>,
       <<-20, -15, 30, 40, 40, 30, -15, -20>>,
       <<-25, -20, 20, 25, 25, 20, -20, -25>>,
       <<-30, -25, 0, 0, 0, 0, -25, -30>>,
       <<-50, -30, -30, -30, -30, -30, -30, -50>> >>

MAX_NON_KING_PIECES == 29

\* _tables[pt][r][c] (rows and columns counted from 0)
_tables(pt, r, c) ==
    CASE pt = "P" -> pawn_table[r + 1][c + 1]
      [] pt = "N" -> knight_table[r + 1][c + 1]
      [] pt = "B" -> bishop_table[r + 1][c + 1]
      [] pt = "R" -> rook_table[r + 1][c + 1]
      [] pt = "Q" -> queen_table[r + 1][c + 1]
      [] pt = "K" -> king_table[r + 1][c + 1]
      [] pt = "L" -> knight_table[r + 1][c + 1]

CHECKMATE == 100000
STALEMATE == 0

CENTER_WEIGHT == 15
PROX_WEIGHT == 7
MAX_KING_MANHATTAN == 14

\* math.inf: a value above every score; inf + 1 = inf - 1 = inf, -inf + 1 = -inf
inf == 1000000000
PlusOne(x) == IF x = inf \/ x = -inf THEN x ELSE x + 1
MinusOne(x) == IF x = inf \/ x = -inf THEN x ELSE x - 1

\* the squares of the board in scanning order
Squares == {<<r, c>> : r \in 0..7, c \in 0..7}

\* sum(1 for row in gs.board for sq in row if sq != '-')
PieceCount(board) == Cardinality({s \in Squares : board[s[1]][s[2]] # "-"})

\* the number of non-empty squares not holding a king
NonKingCount(board) ==
    Cardinality({s \in Squares : board[s[1]][s[2]] # "-" /\ upper(board[s[1]][s[2]]) # "K"})

\* stage = max(0.0, min(1.0, (MAX - n) / MAX)), as its numerator over MAX
StageNum(non_king_count) ==
    IF non_king_count >= MAX_NON_KING_PIECES THEN 0
    ELSE MAX_NON_KING_PIECES - non_king_count

\* int(round(a / MAX)) for an integer a: MAX is odd, so a / MAX is never halfway
\* between two integers and rounding gives the nearest one
RoundOverMax(a) == (2 * a + MAX_NON_KING_PIECES) \div (2 * MAX_NON_KING_PIECES)

\* the king's bonus: int(round((1.0 - stage) * mid_val + stage * end_val))
KingBlend(t, mid_val, end_val) ==
    RoundOverMax((MAX_NON_KING_PIECES - t) * mid_val + t * end_val)

\* base + bonus of the piece p on (r, c), Black's tables being mirrored
PieceValue(p, r, c, t) ==
    IF upper(p) = "K"
    THEN piece_score("K")
         + KingBlend(t, _tables("K", IF isupper(p) THEN r ELSE 7 - r, c),
                     king_endgame_table[(IF isupper(p) THEN r ELSE 7 - r) + 1][c + 1])
    ELSE piece_score(upper(p)) + _tables(upper(p), IF isupper(p) THEN r ELSE 7 - r, c)

\* score over the squares from (r, c) on
RECURSIVE ScoreRow(_, _, _, _)
ScoreRow(board, r, c, t) ==
    IF c > 7 THEN 0
    ELSE (IF board[r][c] = "-" THEN 0
          ELSE IF isupper(board[r][c]) THEN PieceValue(board[r][c], r, c, t)
          ELSE -PieceValue(board[r][c], r, c, t))
         + ScoreRow(board, r, c + 1, t)

RECURSIVE ScoreFrom(_, _, _)
ScoreFrom(board, r, t) ==
    IF r > 7 THEN 0 ELSE ScoreRow(board, r, 0, t) + ScoreFrom(board, r + 1, t)

\* mat_diff: material of the non-king pieces, White's minus Black's
RECURSIVE MatRow(_, _, _)
MatRow(board, r, c) ==
    IF c > 7 THEN 0
    ELSE (IF board[r][c] = "-" \/ upper(board[r][c]) = "K" THEN 0
          ELSE IF isupper(board[r][c]) THEN piece_score(upper(board[r][c]))
          ELSE -piece_score(upper(board[r][c])))
         + MatRow(board, r, c + 1)

RECURSIVE MatFrom(_, _)
MatFrom(board, r) == IF r > 7 THEN 0 ELSE MatRow(board, r, 0) + MatFrom(board, r + 1)

\* math.hypot(r - 3.5, c - 3.5) is Sqrt(HypotSq(r, c)) / 2
HypotSq(r, c) == (2 * r - 7) * (2 * r - 7) + (2 * c - 7) * (2 * c - 7)

\* the integer part of the square root of A (A < 100)
FloorSqrt(A) == CHOOSE m \in 0..9 : m * m <= A /\ A < (m + 1) * (m + 1)

\* c / e > (Sqrt(A) + P) / Q, for e > 0 and A not a perfect square: by the
\* continued fractions of both sides, in integers
RECURSIVE AboveSurd(_, _, _, _, _)
AboveSurd(c, e, A, P, Q) ==
    IF c <= 0 THEN FALSE
    ELSE IF c \div e > (FloorSqrt(A) + P) \div Q THEN TRUE
    ELSE IF c \div e < (FloorSqrt(A) + P) \div Q THEN FALSE
    ELSE IF c % e = 0 THEN FALSE
    ELSE ~AboveSurd(e, c % e, A, ((FloorSqrt(A) + P) \div Q) * Q - P,
                    (A - (((FloorSqrt(A) + P) \div Q) * Q - P)
                         * (((FloorSqrt(A) + P) \div Q) * Q - P)) \div Q)

\* c / e > Sqrt(A)
Above(c, e, A) == AboveSurd(c, e, A, 0, 1)

\* p * (Sqrt(Ab) - Sqrt(Aw)) > T, for p > 0, from the square of both sides
Exceeds(p, Ab, Aw, T) ==
    IF Ab = Aw THEN 0 > T
    ELSE IF Above(-T, p, Aw) THEN TRUE
    ELSE IF T = 0 THEN p * p * (Ab - Aw) > 0
    ELSE IF T > 0 THEN Above(p * p * (Ab - Aw) - T * T, 2 * T * p, Aw)
    ELSE ~Above(T * T - p * p * (Ab - Aw), 2 * (-T) * p, Aw)

\* center_term + prox_term > k - 1/2 when sign = 1, with stage = t / MAX:
\* t * (15 * (Sqrt(Ab) - Sqrt(Aw)) + 14 * (14 - manh)) > MAX * (2 * k - 1)
KingTermsAbove(t, Ab, Aw, manh, k) ==
    Exceeds(CENTER_WEIGHT * t, Ab, Aw,
            MAX_NON_KING_PIECES * (2 * k - 1)
            - 2 * PROX_WEIGHT * t * (MAX_KING_MANHATTAN - manh))

\* round(x) for x between lo - 1/2 and hi + 1/2: the largest k with x > k - 1/2
RECURSIVE RoundKingTerms(_, _, _, _, _, _)
RoundKingTerms(t, Ab, Aw, manh, lo, hi) ==
    IF lo = hi THEN lo
    ELSE IF KingTermsAbove(t, Ab, Aw, manh, (lo + hi + 1) \div 2)
         THEN RoundKingTerms(t, Ab, Aw, manh, (lo + hi + 1) \div 2, hi)
         ELSE RoundKingTerms(t, Ab, Aw, manh, lo, ((lo + hi + 1) \div 2) - 1)

\* int(round(center_term + prox_term)): sign times the rounded value for sign 1
\* (round(-x) = -round(x)); the terms lie between -256 and 255
KingTerms(t, sign, wk, bk) ==
    IF sign = 0 \/ t = 0 THEN 0
    ELSE sign * RoundKingTerms(t, HypotSq(bk[1], bk[2]), HypotSq(wk[1], wk[2]),
                               abs(wk[1] - bk[1]) + abs(wk[2] - bk[2]), -256, 255)

\* the leaf evaluation of minimax (d == 0)
LeafScore(node, t, mat_diff) ==
    ScoreFrom(node.board, 0, t)
    + KingTerms(t, IF mat_diff > 0 THEN 1 ELSE IF mat_diff < 0 THEN -1 ELSE 0,
                node.white_king_location, node.black_king_location)

Evaluate(node) ==
    LeafScore(node, StageNum(NonKingCount(node.board)), MatFrom(node.board, 0))

(***************************************************************************)
(* The positions the GameState is constructed from                        *)
(***************************************************************************)
\* "4k3/8/8/8/8/8/4p3/R3K2R w KQ - 0 1": white may castle either side; a black pawn on e2 attacks d1 and f1
FenCastle ==
    <<"4", "k", "3", "/", "8", "/", "8", "/", "8", "/", "8", "/", "8", "/", "4", "p", "3", "/", "R", "3", "K", "2", "R", " ", "w", " ", "K", "Q", " ", "-", " ", "0", " ", "1">>

\* "k3r3/8/8/8/8/8/4Q3/4K3 w - - 0 1": the white queen is pinned on the e-file by the rook on e8
FenPinnedQueen ==
    <<"k", "3", "r", "3", "/", "8", "/", "8", "/", "8", "/", "8", "/", "8", "/", "4", "Q", "3", "/", "4", "K", "3", " ", "w", " ", "-", " ", "-", " ", "0", " ", "1">>

\* "7k/4p3/8/K2P2rn/8/8/8/8 b - - 0 1": after ...e7-e5 the capture dxe6 e.p. opens the fifth rank to the rook on g5
FenEnPassantRank ==
    <<"7", "k", "/", "4", "p", "3", "/", "8", "/", "K", "2", "P", "2", "r", "n", "/", "8", "/", "8", "/", "8", "/", "8", " ", "b", " ", "-", " ", "-", " ", "0", " ", "1">>

\* "4k3/8/8/8/3p4/8/4P3/4K3 w - - 0 1": after e2-e4 Black may capture en passant on e3
FenBlackEnPassant ==
    <<"4", "k", "3", "/", "8", "/", "8", "/", "8", "/", "3", "p", "4", "/", "8", "/", "4", "P", "3", "/", "4", "K", "3", " ", "w", " ", "-", " ", "-", " ", "0", " ", "1">>

\* "1r6/P1k4p/8/8/8/8/8/7K w - - 0 1": the a-pawn promotes on a8 or by capturing on b8
FenPromotion ==
    <<"1", "r", "6", "/", "P", "1", "k", "4", "p", "/", "8", "/", "8", "/", "8", "/", "8", "/", "8", "/", "7", "K", " ", "w", " ", "-", " ", "-", " ", "0", " ", "1">>

\* "8/8/8/4k3/8/8/8/4KB2 w - - 0 1": king and bishop against king
FenBishopOnly ==
    <<"8", "/", "8", "/", "8", "/", "4", "k", "3", "/", "8", "/", "8", "/", "8", "/", "4", "K", "B", "2", " ", "w", " ", "-", " ", "-", " ", "0", " ", "1">>

\* "7k/5N2/6KN/8/8/8/8/8 b - - 0 1": two knights only, Black is checkmated
FenTwoKnightsMate ==
    <<"7", "k", "/", "5", "N", "2", "/", "6", "K", "N", "/", "8", "/", "8", "/", "8", "/", "8", "/", "8", " ", "b", " ", "-", " ", "-", " ", "0", " ", "1">>

\* "k1b5/1p1p4/1P1P4/8/8/1p1p4/1P1P4/K1B5 w - - 0 1": locked position: each king has one move, to b1/b8 and back
FenShuffle ==
    <<"k", "1", "b", "5", "/", "1", "p", "1", "p", "4", "/", "1", "P", "1", "P", "4", "/", "8", "/", "8", "/", "1", "p", "1", "p", "4", "/", "1", "P", "1", "P", "4", "/", "K", "1", "B", "5", " ", "w", " ", "-", " ", "-", " ", "0", " ", "1">>

\* "rnbqkbnr/pppp1ppp/8/4p3/6P1/5P2/PPPPP2P/RNBQKBNR b KQkq - 0 2": after 1. f3 e5 2. g4, Black mates with Qh4
FenFoolsMate ==
    <<"r", "n", "b", "q", "k", "b", "n", "r", "/", "p", "p", "p", "p", "1", "p", "p", "p", "/", "8", "/", "4", "p", "3", "/", "6", "P", "1", "/", "5", "P", "2", "/", "P", "P", "P", "P", "P", "2", "P", "/", "R", "N", "B", "Q", "K", "B", "N", "R", " ", "b", " ", "K", "Q", "k", "q", " ", "-", " ", "0", " ", "2">>

\* "8/8/8/8/8/2k5/8/B3K3 b - - 0 1": king and bishop against king, Black is in check and has moves
FenBishopCheck ==
    <<"8", "/", "8", "/", "8", "/", "8", "/", "8", "/", "2", "k", "5", "/", "8", "/", "B", "3", "K", "3", " ", "b", " ", "-", " ", "-", " ", "0", " ", "1">>

\* "rnbqkbnr/pppppppp/8/8/8/8/PPPPPPPP/RNBQKBNR w KQkq - 0 1": INITIAL_FEN, the starting position
FenInitial ==
    <<"r", "n", "b", "q", "k", "b", "n", "r", "/", "p", "p", "p", "p", "p", "p", "p", "p", "/", "8", "/", "8", "/", "8", "/", "8", "/", "P", "P", "P", "P", "P", "P", "P", "P", "/", "R", "N", "B", "Q", "K", "B", "N", "R", " ", "w", " ", "K", "Q", "k", "q", " ", "-", " ", "0", " ", "1">>

\* "k7/8/8/8/8/p7/P7/K1n5 w - - 0 1": blocked a-pawns, the white king can take the knight on c1
FenKnightEnPrise ==
    <<"k", "7", "/", "8", "/", "8", "/", "8", "/", "8", "/", "p", "7", "/", "P", "7", "/", "K", "1", "n", "5", " ", "w", " ", "-", " ", "-", " ", "0", " ", "1">>

\* "6k1/5ppp/8/8/8/8/8/R5K1 w - - 0 1": six pieces, Ra8 is mate
FenBackRank ==
    <<"6", "k", "1", "/", "5", "p", "p", "p", "/", "8", "/", "8", "/", "8", "/", "8", "/", "8", "/", "R", "5", "K", "1", " ", "w", " ", "-", " ", "-", " ", "0", " ", "1">>

\* "7k/5p2/6KN/4N3/8/8/8/8 w - - 0 1": either knight can take on f7 with check, leaving king and two knights against king
FenKnightTakesPawn ==
    <<"7", "k", "/", "5", "p", "2", "/", "6", "K", "N", "/", "4", "N", "3", "/", "8", "/", "8", "/", "8", "/", "8", " ", "w", " ", "-", " ", "-", " ", "0", " ", "1">>

\* "8/8/8/8/p4k2/K7/1P4r1/3qb3 w - - 0 1": after b2-b4 Black may capture en passant, and mates with Qb3 or Qa1
FenEnPassantMate ==
    <<"8", "/", "8", "/", "8", "/", "8", "/", "p", "4", "k", "2", "/", "K", "7", "/", "1", "P", "4", "r", "1", "/", "3", "q", "b", "3", " ", "w", " ", "-", " ", "-", " ", "0", " ", "1">>

\* "8/8/8/8/6p1/8/K6P/2k5 w - - 0 1": after h2-h4 the black pawn, whose moves are generated before the king's, may capture en passant
FenEnPassantInside ==
    <<"8", "/", "8", "/", "8", "/", "8", "/", "6", "p", "1", "/", "8", "/", "K", "6", "P", "/", "2", "k", "5", " ", "w", " ", "-", " ", "-", " ", "0", " ", "1">>

\* "8/8/8/2p2p1k/1pP2P2/1P5p/7P/7K w - - 0 1": locked pawns, more than six pieces besides the kings, so that a search of depth 5 makes null-move searches with a finite window
FenLockedPawns ==
    <<"8", "/", "8", "/", "8", "/", "2", "p", "2", "p", "1", "k", "/", "1", "p", "P", "2", "P", "2", "/", "1", "P", "5", "p", "/", "7", "P", "/", "7", "K", " ", "w", " ", "-", " ", "-", " ", "0", " ", "1">>

\* "7k/8/8/8/8/5n2/3P4/K7 w - - 0 1": after Ka1-b1 the knight takes the last pawn with check, leaving king against king and knight
FenLastPawn ==
    <<"7", "k", "/", "8", "/", "8", "/", "8", "/", "8", "/", "5", "n", "2", "/", "3", "P", "4", "/", "K", "7", " ", "w", " ", "-", " ", "-", " ", "0", " ", "1">>

Fens ==
    <<FenCastle, FenPinnedQueen, FenEnPassantRank, FenBlackEnPassant, FenPromotion,
      FenBishopOnly, FenTwoKnightsMate, FenShuffle, FenFoolsMate, FenBishopCheck, FenInitial>>

(***************************************************************************)
(* Bounds                                                                  *)
(***************************************************************************)
\* moves are made from any position with fewer than MaxPly moves in its history
MaxPly == 1
\* a forced line (exactly one legal move) is followed up to MaxForcedPly moves
MaxForcedPly == 8

(***************************************************************************)
(* The state machine: a caller constructs a GameState from a text, asks    *)
(* for the legal moves, makes one of them (choosing the promotion piece)   *)
(* or takes the last move back.                                            *)
(***************************************************************************)
PromotionChoices == {"Q", "R", "B", "N"}

\* None, where a Move may stand: it equals no move
None == [moveID |-> -1]

\* no findBestMove call has been made
NoCall ==
    [pc |-> "idle", depth |-> 0, turn_white |-> TRUE, best_move |-> None, best_score |-> 0,
     pv_move |-> None, d_id |-> 0, best_sh |-> None, best_sh_score |-> 0, i |-> 0]

Init ==
    /\ fen_in \in {Fens[i] : i \in 1..Len(Fens)}
    /\ gs = NewGameState(fen_in)
    /\ valid_moves = <<>>
    /\ fresh = FALSE
    /\ last_op = "init"
    /\ log_before = 0
    /\ return_queue = <<>>
    /\ call = NoCall
    /\ stack = <<>>
    /\ _tt = <<>>
    /\ _killers = <<>>
    /\ _history = <<>>
    /\ gs_at_call = gs

\* valid_moves = game_state.getValidMoves()
GetValidMoves ==
    /\ LET res == getValidMoves(gs)
       IN  /\ gs' = res.g
           /\ valid_moves' = res.moves
    /\ fresh' = TRUE
    /\ last_op' = "getValidMoves"
    /\ log_before' = Len(gs.move_log)
    /\ UNCHANGED <<fen_in, search>>

\* the moves the caller may hand to makeMove: a move of the list just returned,
\* a promotion carrying the piece the player picked
Playable ==
    {[valid_moves[i] EXCEPT !.promotion_choice = pch] :
        i \in 1..Len(valid_moves), pch \in PromotionChoices}

CallerMove(m) ==
    IF m.is_pawn_promotion THEN m ELSE [m EXCEPT !.promotion_choice = "unset"]

CallerMoves == {CallerMove(x) : x \in Playable}

\* game_state.makeMove(m)
MakeMove ==
    /\ fresh
    /\ \/ Len(gs.move_log) < MaxPly
       \/ Len(valid_moves) = 1 /\ Len(gs.move_log) < MaxForcedPly
    /\ \E m \in CallerMoves : gs' = makeMove(gs, m)
    /\ valid_moves' = <<>>
    /\ fresh' = FALSE
    /\ last_op' = "makeMove"
    /\ log_before' = Len(gs.move_log)
    /\ UNCHANGED <<fen_in, search>>

\* game_state.undoMove()
UndoMove ==
    /\ gs' = undoMove(gs)
    /\ valid_moves' = <<>>
    /\ fresh' = FALSE
    /\ last_op' = "undoMove"
    /\ log_before' = Len(gs.move_log)
    /\ UNCHANGED <<fen_in, search>>

Next == GetValidMoves \/ MakeMove \/ UndoMove

Spec == Init /\ [][Next]_vars

\* a move the caller builds itself with the castle flag set,
\* Move(start, end, board, is_castle_move=True), from the squares of a legal move
FlaggedMoves == {[m EXCEPT !.is_castle_move = TRUE] : m \in CallerMoves}

\* game_state.makeMove(m) for such a move
MakeFlaggedMove ==
    /\ fresh
    /\ Len(gs.move_log) < MaxPly
    /\ \E m \in FlaggedMoves : gs' = makeMove(gs, m)
    /\ valid_moves' = <<>>
    /\ fresh' = FALSE
    /\ last_op' = "makeMove"
    /\ log_before' = Len(gs.move_log)
    /\ UNCHANGED <<fen_in, search>>

\* game_state.undoMove() where it returns: with a move to take back and a
\* single entry left in the en-passant or castling-rights log, the [-1] after
\* the pop raises IndexError
UndoMoveReturns ==
    /\ gs.move_log # <<>>
        => Len(gs.enpassant_possible_log) >= 2 /\ Len(gs.castle_rights_log) >= 2
    /\ UndoMove

\* the game with a caller that may also hand makeMove moves of its own making
ContractNext == GetValidMoves \/ MakeMove \/ MakeFlaggedMove \/ UndoMoveReturns

ContractSpec == Init /\ [][ContractNext]_vars

(***************************************************************************)
(* The search (src/EVA.py).  A minimax call in progress is a frame of      *)
(* `stack`; a frame's pc tells where the call stands: "enter" (called, not *)
(* yet run), "null" (waiting for the null-move search), "first", "scout",  *)
(* "full" (waiting for the search of legal[i] with the window of that      *)
(* name), "ret" (returned `ret` through the return statement `exit`).      *)
(* The operators below work on a record w of everything the code touches:  *)
(* g (the GameState, which is also `node`), moves, call, stack, tt,        *)
(* killers, history, queue.                                                *)
(***************************************************************************)
max(a, b) == IF a >= b THEN a ELSE b
min(a, b) == IF a <= b THEN a ELSE b

\* str(d) for any integer
StrInt(n) == IF n < 0 THEN <<"-">> \o str(-n) ELSE str(n)

\* key = f"{node.current_fen}|{d}|{int(max_player)}"
Key(node, d, max_player) ==
    node.current_fen \o <<"|">> \o StrInt(d) \o <<"|">>
        \o (IF max_player THEN <<"1">> ELSE <<"0">>)

\* the call minimax(node, d, alpha, beta, max_player), about to run
Frame(d, alpha, beta, max_player) ==
    [pc |-> "enter", d |-> d, alpha |-> alpha, beta |-> beta, max_player |-> max_player,
     alpha_orig |-> alpha, key |-> <<>>, legal |-> <<>>, i |-> 0, value |-> 0,
     exit |-> "", ret |-> 0]

Top(w) == w.stack[Len(w.stack)]
SetTop(w, f) == [w EXCEPT !.stack[Len(w.stack)] = f]
Push(w, f) == [w EXCEPT !.stack = Append(@, f)]
Pop(w) == [w EXCEPT !.stack = Front(@)]

\* "return val" at the return statement named exit
Return(w, f, exit, val) == SetTop(w, [f EXCEPT !.pc = "ret", !.exit = exit, !.ret = val])

\* _tt[key] = {"value": val, "flag": flag}
Store(w, key, val, flag) == [w EXCEPT !.tt = (key :> [value |-> val, flag |-> flag]) @@ @]

StoreReturn(w, f, exit, val, flag) == Return(Store(w, f.key, val, flag), f, exit, val)

\* the window of the call that searches legal[i]: the full window for the
\* first move and for a re-search, a minimal window at the node's bound else
ChildWindow(f, pc) ==
    IF pc = "scout"
    THEN (IF f.max_player THEN <<f.alpha, PlusOne(f.alpha)>> ELSE <<MinusOne(f.beta), f.beta>>)
    ELSE <<f.alpha, f.beta>>

\* val = minimax(node, d - 1, ..., not max_player)
Call(w, f, pc) ==
    Push(SetTop(w, [f EXCEPT !.pc = pc]),
         Frame(f.d - 1, ChildWindow(f, pc)[1], ChildWindow(f, pc)[2], ~f.max_player))

\* "for m in legal: node.makeMove(m)" and the first call of the iteration
Descend(w, f, pc) == Call([w EXCEPT !.g = makeMove(w.g, f.legal[f.i])], f, pc)

\* the flag of the entry stored after the move loop
StoreFlag(value, alpha_orig, beta) ==
    IF value <= alpha_orig THEN "UPPER" ELSE IF value >= beta THEN "LOWER" ELSE "EXACT"

\* "TT store" and "return value"
Finish(w, f) ==
    StoreReturn(w, f, "search", f.value, StoreFlag(f.value, f.alpha_orig, f.beta))

\* _killers[d] (the read creates the entry [None, None])
Killers(killers, d) == IF d \in DOMAIN killers THEN killers[d] ELSE <<None, None>>

\* a non-capture that is not killer 0 becomes killer 0, the old one killer 1
KillersAfter(km, m) == IF MoveEq(m, km[1]) THEN km ELSE <<m, km[1]>>

HistoryKey(d, m) == <<d, m.start_row, m.start_col, m.end_row, m.end_col>>
History(history, k) == IF k \in DOMAIN history THEN history[k] ELSE 0

\* the statements run on a cutoff (alpha >= beta) by the move m at depth d
Cutoff(w, d, m) ==
    [w EXCEPT
        !.killers = IF m.is_capture THEN @ ELSE (d :> KillersAfter(Killers(@, d), m)) @@ @,
        !.history = (HistoryKey(d, m) :> (History(@, HistoryKey(d, m)) + 2 ^ d)) @@ @]

\* "update": value and the node's own bound after legal[i] returned val
Updated(f, val) ==
    IF f.max_player
    THEN [f EXCEPT !.value = max(@, val), !.alpha = max(@, max(f.value, val))]
    ELSE [f EXCEPT !.value = min(@, val), !.beta = min(@, min(f.value, val))]

\* after the update: cutoff and break, or the next move, or the end of the loop
Continue(w, f) ==
    IF f.alpha >= f.beta THEN Finish(Cutoff(w, f.d, f.legal[f.i]), f)
    ELSE IF f.i < Len(f.legal) THEN Descend(w, [f EXCEPT !.i = @ + 1], "scout")
    ELSE Finish(w, f)

\* the caller f resumed with the value val of the call it waited for: a scout
\* value inside the window is searched again, else the move is taken back
AfterChild(w, f, val) ==
    IF f.pc = "scout" /\ f.alpha < val /\ val < f.beta THEN Call(w, f, "full")
    ELSE Continue([w EXCEPT !.g = undoMove(w.g)], Updated(f, val))

\* "leaf evaluation" when d == 0, else "PVS search" up to its first call
Search(w, f) ==
    IF f.d = 0 THEN StoreReturn(w, f, "leaf", Evaluate(w.g), "EXACT")
    ELSE Descend(w, [f EXCEPT !.value = IF f.max_player THEN -inf ELSE inf, !.i = 1], "first")

\* the caller resumed with nm_val = -minimax(...): the side is flipped back
AfterNull(w, f, nm_val) ==
    IF nm_val >= f.beta
    THEN Return([w EXCEPT !.g.white_to_move = ~@], f, "null_cutoff", nm_val)
    ELSE Search([w EXCEPT !.g.white_to_move = ~@], f)

\* a null-move search one ply deeper than the node allows
NullDepthTooDeep(d) == d - 4

\* the depth of the null-move search: d - 3
NullDepth(d) == d - 3

\* "null-move pruning": the side is flipped on the node itself
NullMove(w, f) ==
    IF f.d > 2 /\ ~inCheck(w.g) /\ NonKingCount(w.g.board) > 6
    THEN Push(SetTop([w EXCEPT !.g.white_to_move = ~@], [f EXCEPT !.pc = "null"]),
              Frame(NullDepth(f.d), -f.beta, PlusOne(-f.beta), ~f.max_player))
    ELSE Search(w, f)

\* result = -CHECKMATE if node.inCheck() else STALEMATE; val = result if max_player else -result
TerminalValue(in_check, max_player) ==
    IF max_player THEN (IF in_check THEN -CHECKMATE ELSE STALEMATE)
    ELSE (IF in_check THEN CHECKMATE ELSE -STALEMATE)

\* "generate moves & terminal tests", res being what getValidMoves left and returned
Generate(w, f, res) ==
    IF res.moves = <<>>
    THEN StoreReturn([w EXCEPT !.g = res.g], f, "terminal",
                     TerminalValue(inCheck(res.g), f.max_player), "EXACT")
    ELSE NullMove([w EXCEPT !.g = res.g], [f EXCEPT !.legal = res.moves])

\* "TT Lookup with flags": the bounds after a LOWER or UPPER entry
Tighten(f, entry) ==
    IF entry.flag = "LOWER" /\ entry.value > f.alpha THEN [f EXCEPT !.alpha = entry.value]
    ELSE IF entry.flag = "UPPER" /\ entry.value < f.beta THEN [f EXCEPT !.beta = entry.value]
    ELSE f

AfterLookup(w, f) == Generate(w, f, getValidMoves(w.g))

Lookup(w, f) ==
    IF f.key \notin DOMAIN w.tt THEN AfterLookup(w, f)
    ELSE IF w.tt[f.key].flag = "EXACT" THEN Return(w, f, "tt_exact", w.tt[f.key].value)
    ELSE IF Tighten(f, w.tt[f.key]).alpha >= Tighten(f, w.tt[f.key]).beta
    THEN Return(w, f, "tt_cutoff", w.tt[f.key].value)
    ELSE AfterLookup(w, Tighten(f, w.tt[f.key]))

\* minimax from its first statement to its first call or its return
minimax(w, f) == Lookup(w, [f EXCEPT !.key = Key(w.g, f.d, f.max_player)])

(***************************************************************************)
(* findBestMove.  call.pc tells where the call stands: "idle" (not yet     *)
(* called; call.depth is the depth it will be called with), "id" (waiting  *)
(* for the minimax call of the iterative-deepening loop on moves[i]),      *)
(* "root" (waiting for the minimax call of the root search on moves[i]),   *)
(* "done" (returned).                                                      *)
(***************************************************************************)
\* a variant of put that drops the item
putNothing(queue, item) == queue

\* return_queue.put(item)
put(queue, item) == Append(queue, item)

\* "endgame deepening"
SearchDepth(depth, piece_count) ==
    IF depth = 4
    THEN (IF piece_count <= 4 THEN 8 ELSE IF piece_count <= 7 THEN 6 ELSE depth)
    ELSE depth

\* "mate-in-1 shortcut": the GameState the loop leaves and the index of the move
\* it returned on (0 when the loop ran to its end)
RECURSIVE MateLoop(_, _, _)
MateTry(moves, i, res) ==
    IF res.moves = <<>> /\ inCheck(res.g) THEN [g |-> undoMove(res.g), found |-> i]
    ELSE MateLoop(undoMove(res.g), moves, i + 1)

MateLoop(g, moves, i) ==
    IF i > Len(moves) THEN [g |-> g, found |-> 0]
    ELSE MateTry(moves, i, getValidMoves(makeMove(g, moves[i])))

\* return_queue.put(item); return
Deliver(w, item) == [w EXCEPT !.queue = put(@, item), !.call.pc = "done"]

\* the last two statements; "fallback" marks that random.choice is to be called
End(w) ==
    IF MoveEq(w.call.best_move, None) /\ w.moves # <<>> THEN [w EXCEPT !.call.pc = "fallback"]
    ELSE Deliver(w, w.call.best_move)

\* "root search": up to the call for moves[i], or to the end
RootLoop(w) ==
    IF w.call.i > Len(w.moves) THEN End(w)
    ELSE Push([w EXCEPT !.g = makeMove(w.g, w.moves[w.call.i]), !.call.pc = "root"],
              Frame(w.call.depth - 1, -inf, inf, ~w.call.turn_white))

\* the root search resumed with sc, the move taken back
RootBest(w, sc) ==
    IF (w.call.turn_white /\ sc > w.call.best_score)
       \/ (~w.call.turn_white /\ sc < w.call.best_score)
    THEN [w EXCEPT !.call.best_score = sc, !.call.best_move = w.moves[w.call.i],
                   !.call.i = @ + 1]
    ELSE [w EXCEPT !.call.i = @ + 1]

AfterRootCall(w, sc) == RootLoop(RootBest([w EXCEPT !.g = undoMove(w.g)], sc))

\* root_move_key(m)
root_move_key(m, depth, killers, history) ==
    IF m.is_capture
    THEN 10000 + piece_score(upper(m.piece_captured)) - piece_score(upper(m.piece_moved))
    ELSE (IF MoveEq(m, Killers(killers, depth)[1]) THEN 9000
          ELSE IF MoveEq(m, Killers(killers, depth)[2]) THEN 8000 ELSE 0)
         + History(history, HistoryKey(depth, m))

\* list.sort(key=..., reverse=True), keys[i] being the key of list[i]: the
\* larger key first, equal keys in their old order
SortPlace(keys, i) ==
    1 + Cardinality({j \in 1..Len(keys) : keys[j] > keys[i] \/ (keys[j] = keys[i] /\ j < i)})

Sorted(list, keys) ==
    [p \in 1..Len(list) |-> list[CHOOSE i \in 1..Len(list) : SortPlace(keys, i) = p]]

\* the moves root_move_key is called on: moves[1:] after a PV move, else all
SortedPart(moves, pv_move) == IF MoveEq(pv_move, None) THEN moves ELSE Tail(moves)

\* what calling root_move_key on the moves of part leaves in _killers and
\* _history: reading a missing entry creates it
KeyedKillers(killers, depth, part) ==
    IF (\E i \in 1..Len(part) : ~part[i].is_capture) /\ depth \notin DOMAIN killers
    THEN (depth :> <<None, None>>) @@ killers
    ELSE killers

KeyedHistory(history, depth, part) ==
    [k \in DOMAIN history
           \cup {HistoryKey(depth, part[i]) : i \in {j \in 1..Len(part) : ~part[j].is_capture}}
       |-> History(history, k)]

\* "sort the rest after PV", moves having the PV move first when there is one
SortMoves(w, part) ==
    [w EXCEPT
        !.moves = SubSeq(@, 1, Len(@) - Len(part))
                  \o Sorted(part, [i \in 1..Len(part) |->
                                      root_move_key(part[i], w.call.depth, w.killers, w.history)]),
        !.killers = KeyedKillers(@, w.call.depth, part),
        !.history = KeyedHistory(@, w.call.depth, part),
        !.call.i = 1]

\* "if pv_move in moves: moves.remove(pv_move); moves.insert(0, pv_move)"
PvFirst(moves, pv_move) ==
    IF \E i \in 1..Len(moves) : MoveEq(moves[i], pv_move)
    THEN <<pv_move>> \o RemoveMove(moves, pv_move)
    ELSE moves

Reordered(w) == [w EXCEPT !.moves = PvFirst(@, w.call.pv_move)]

Order(w) == SortMoves(Reordered(w), SortedPart(Reordered(w).moves, w.call.pv_move))

\* the head of an iteration of "for d_id in range(1, depth)"
IdStart(w) ==
    IF w.call.d_id < w.call.depth
    THEN [w EXCEPT !.call.best_sh = None,
                   !.call.best_sh_score = IF w.g.white_to_move THEN -inf ELSE inf,
                   !.call.i = 1]
    ELSE w

\* sc = minimax(gs, d_id - 1, -math.inf, math.inf, not gs.white_to_move)
IdCall(w) == Push(w, Frame(w.call.d_id - 1, -inf, inf, ~w.g.white_to_move))

\* "iterative-deepening": up to the call for moves[i], or on to the ordering
\* and the root search
RECURSIVE IdLoop(_)
IdLoop(w) ==
    IF w.call.d_id >= w.call.depth THEN RootLoop(Order(w))
    ELSE IF w.call.i > Len(w.moves)
    THEN IdLoop(IdStart([w EXCEPT !.call.pv_move = w.call.best_sh, !.call.d_id = @ + 1]))
    ELSE IdCall([w EXCEPT !.g = makeMove(w.g, w.moves[w.call.i]), !.call.pc = "id"])

\* the loop resumed with sc, the move taken back
IdBest(w, sc) ==
    IF (w.g.white_to_move /\ sc > w.call.best_sh_score)
       \/ (~w.g.white_to_move /\ sc < w.call.best_sh_score)
    THEN [w EXCEPT !.call.best_sh_score = sc, !.call.best_sh = w.moves[w.call.i],
                   !.call.i = @ + 1]
    ELSE [w EXCEPT !.call.i = @ + 1]

AfterIdCall(w, sc) == IdLoop(IdBest([w EXCEPT !.g = undoMove(w.g)], sc))

\* after the mate-in-1 loop: its early return, or the rest of the function
AfterMate(w, mate) ==
    IF mate.found > 0 THEN Deliver([w EXCEPT !.g = mate.g], w.moves[mate.found])
    ELSE IdLoop(IdStart([w EXCEPT !.g = mate.g]))

\* findBestMove(gs, moves, return_queue, depth) up to its first minimax call
findBestMove(w, depth) ==
    AfterMate([w EXCEPT !.call =
                  [pc |-> "start",
                   depth |-> SearchDepth(depth, PieceCount(w.g.board)),
                   turn_white |-> w.g.white_to_move,
                   best_move |-> None,
                   best_score |-> IF w.g.white_to_move THEN -inf ELSE inf,
                   pv_move |-> None, d_id |-> 1, best_sh |-> None, best_sh_score |-> 0,
                   i |-> 1]],
              MateLoop(w.g, w.moves, 1))

(***************************************************************************)
(* The state machine of a search: the caller has a GameState and the list  *)
(* getValidMoves returned for it and calls findBestMove; every call and    *)
(* every return of minimax is a step.                                      *)
(***************************************************************************)
World ==
    [g |-> gs, moves |-> valid_moves, call |-> call, stack |-> stack, tt |-> _tt,
     killers |-> _killers, history |-> _history, queue |-> return_queue]

Becomes(w) ==
    /\ gs' = w.g
    /\ valid_moves' = w.moves
    /\ call' = w.call
    /\ stack' = w.stack
    /\ _tt' = w.tt
    /\ _killers' = w.killers
    /\ _history' = w.history
    /\ return_queue' = w.queue

\* best_move = random.choice(moves) where the code calls it
Resume(w) ==
    IF w.call.pc = "fallback"
    THEN \E i \in 1..Len(w.moves) :
            Becomes(Deliver([w EXCEPT !.call.best_move = w.moves[i]], w.moves[i]))
    ELSE Becomes(w)

\* EVA.findBestMove(game_state, moves, q, depth)
FindBestMove ==
    /\ call.pc = "idle"
    /\ fresh
    /\ \E w \in {findBestMove(World, call.depth)} : Resume(w)
    /\ gs_at_call' = gs
    /\ last_op' = "findBestMove"
    /\ log_before' = Len(gs.move_log)
    /\ UNCHANGED <<fresh, fen_in>>

\* a called minimax runs to its first call or to its return
MinimaxEnter ==
    /\ stack # <<>>
    /\ Last(stack).pc = "enter"
    /\ \E w \in {minimax(World, Last(stack))} : Becomes(w)
    /\ last_op' = "minimax"
    /\ UNCHANGED <<fresh, fen_in, log_before, gs_at_call>>

\* the null-move search returns to the minimax that made it
NullMoveReturn ==
    /\ Len(stack) >= 2
    /\ Last(stack).pc = "ret"
    /\ Last(Front(stack)).pc = "null"
    /\ \E w \in {AfterNull(Pop(World), Last(Front(stack)), -Last(stack).ret)} : Becomes(w)
    /\ last_op' = "minimax"
    /\ UNCHANGED <<fresh, fen_in, log_before, gs_at_call>>

\* the search of a move returns to the minimax that made it
ChildReturn ==
    /\ Len(stack) >= 2
    /\ Last(stack).pc = "ret"
    /\ Last(Front(stack)).pc \in {"first", "scout", "full"}
    /\ \E w \in {AfterChild(Pop(World), Last(Front(stack)), Last(stack).ret)} : Becomes(w)
    /\ last_op' = "minimax"
    /\ UNCHANGED <<fresh, fen_in, log_before, gs_at_call>>

\* a minimax call of the iterative-deepening loop returns to findBestMove
IdReturn ==
    /\ Len(stack) = 1
    /\ Last(stack).pc = "ret"
    /\ call.pc = "id"
    /\ \E w \in {AfterIdCall(Pop(World), Last(stack).ret)} : Resume(w)
    /\ last_op' = "findBestMove"
    /\ UNCHANGED <<fresh, fen_in, log_before, gs_at_call>>

\* a minimax call of the root search returns to findBestMove
RootReturn ==
    /\ Len(stack) = 1
    /\ Last(stack).pc = "ret"
    /\ call.pc = "root"
    /\ \E w \in {AfterRootCall(Pop(World), Last(stack).ret)} : Resume(w)
    /\ last_op' = "findBestMove"
    /\ UNCHANGED <<fresh, fen_in, log_before, gs_at_call>>

\* the positions searched and the depth asked for; `first` is the moveID of a
\* move played before the search (-1: none)
Roots ==
    <<[fen |-> FenBlackEnPassant, first |-> 6444, depth |-> 1],
      [fen |-> FenFoolsMate, first |-> -1, depth |-> 4],
      [fen |-> FenKnightEnPrise, first |-> -1, depth |-> 3],
      [fen |-> FenKnightEnPrise, first |-> -1, depth |-> 2],
      [fen |-> FenShuffle, first |-> -1, depth |-> 4],
      [fen |-> FenBishopOnly, first |-> -1, depth |-> 4],
      [fen |-> FenBackRank, first |-> -1, depth |-> 4],
      [fen |-> FenKnightTakesPawn, first |-> -1, depth |-> 1],
      [fen |-> FenEnPassantMate, first |-> 6141, depth |-> 1],
      [fen |-> FenEnPassantInside, first |-> -1, depth |-> 3],
      [fen |-> FenLockedPawns, first |-> -1, depth |-> 5],
      [fen |-> FenLastPawn, first |-> -1, depth |-> 2]>>

\* game_state = GameState(fen); a first move, if any, chosen from
\* getValidMoves() and made; moves = game_state.getValidMoves()
FirstMove(res, first) ==
    IF first < 0 THEN res.g
    ELSE makeMove(res.g, res.moves[CHOOSE i \in 1..Len(res.moves) : res.moves[i].moveID = first])

Opening(root) == getValidMoves(FirstMove(getValidMoves(NewGameState(root.fen)), root.first))

SearchInit ==
    \E n \in 1..Len(Roots) :
        /\ fen_in = Roots[n].fen
        /\ \E res \in {Opening(Roots[n])} : gs = res.g /\ valid_moves = res.moves
        /\ fresh = TRUE
        /\ last_op = "getValidMoves"
        /\ log_before = Len(gs.move_log)
        /\ return_queue = <<>>
        /\ call = [NoCall EXCEPT !.depth = Roots[n].depth]
        /\ stack = <<>>
        /\ _tt = <<>>
        /\ _killers = <<>>
        /\ _history = <<>>
        /\ gs_at_call = gs

SearchNext ==
    FindBestMove \/ MinimaxEnter \/ NullMoveReturn \/ ChildReturn \/ IdReturn \/ RootReturn

SearchSpec == SearchInit /\ [][SearchNext]_vars

\* findBestMove has not returned and the step moves it on: its own position or
\* the minimax calls in progress change, as they do in every step of
\* SearchNext. The first disjunct is an instance of the second, named so that
\* enabledness is decided without running the search.
Advance ==
    /\ call.pc # "done"
    /\ \/ /\ call' = [call EXCEPT !.pc = "done"]
          /\ UNCHANGED <<gs, valid_moves, fresh, fen_in, last_op, log_before>>
          /\ UNCHANGED <<return_queue, stack, _tt, _killers, _history, gs_at_call>>
       \/ <<call, stack>>' # <<call, stack>>

\* the search runs in a process of its own that is never suspended for good:
\* while findBestMove has not returned, a step is taken
SearchLive == SearchSpec /\ WF_vars(Advance)

(***************************************************************************)
(* The leaf evaluation on its own: minimax(node, 0, -inf, inf, max_player) *)
(* called for positions of two kings and one rook, the rook having just    *)
(* moved (current_fen exists only once a move was made)                    *)
(***************************************************************************)
\* the squares the rook moves from and to, the moveID of that move, and the
\* squares the kings are drawn from: neither king shares a row or a column
\* with the rook before its move, the black king none after it either
EvalRookFrom == <<5, 0>>
EvalRook == <<4, 0>>
EvalMove == 1000 * EvalRookFrom[1] + 100 * EvalRookFrom[2] + 10 * EvalRook[1] + EvalRook[2]
EvalWhiteKings == {<<3, 6>>, <<2, 7>>, <<3, 3>>, <<4, 4>>, <<6, 5>>, <<6, 6>>, <<7, 7>>, <<2, 5>>}
EvalBlackKings == {<<0, 1>>, <<0, 2>>, <<1, 1>>, <<0, 7>>, <<2, 2>>}

EvalBoard(wk, bk, rook) ==
    [r \in 0..7 |-> [c \in 0..7 |->
        IF <<r, c>> = wk THEN "K"
        ELSE IF <<r, c>> = bk THEN "k"
        ELSE IF <<r, c>> = EvalRookFrom THEN rook
        ELSE "-"]]

\* the position before the rook's move, its owner to move
EvalFen(wk, bk, rook) ==
    board_to_fen(EvalBoard(wk, bk, rook))
    \o <<" ", IF isupper(rook) THEN "w" ELSE "b", " ", "-", " ", "-", " ", "0", " ", "1">>

\* the kings are not on adjoining squares
Apart(wk, bk) == abs(wk[1] - bk[1]) > 1 \/ abs(wk[2] - bk[2]) > 1

\* game_state = GameState(fen); the rook's move chosen from getValidMoves() and made
EvalNode(wk, bk, rook) == FirstMove(getValidMoves(NewGameState(EvalFen(wk, bk, rook))), EvalMove)

EvalInit ==
    \E wk \in EvalWhiteKings, bk \in EvalBlackKings, rook \in {"R", "r"} :
        /\ Apart(wk, bk)
        /\ fen_in = EvalFen(wk, bk, rook)
        /\ gs = EvalNode(wk, bk, rook)
        /\ valid_moves = <<>>
        /\ fresh = FALSE
        /\ last_op = "makeMove"
        /\ log_before = 0
        /\ return_queue = <<>>
        /\ call = NoCall
        /\ stack = <<Frame(0, -inf, inf, gs.white_to_move)>>
        /\ _tt = <<>>
        /\ _killers = <<>>
        /\ _history = <<>>
        /\ gs_at_call = gs

EvalNext == MinimaxEnter

EvalSpec == EvalInit /\ [][EvalNext]_vars

(***************************************************************************)
(* The rules of chess the contracts are stated against, written from the   *)
(* rules and not from the generators: which squares a piece attacks.       *)
(***************************************************************************)
Sign(x) == IF x < 0 THEN -1 ELSE IF x > 0 THEN 1 ELSE 0
Max(a, b) == IF a >= b THEN a ELSE b

\* the squares strictly between (r, c) and (tr, tc), which lie on one line, are empty
ClearBetween(board, r, c, tr, tc) ==
    \A k \in 1..(Max(abs(tr - r), abs(tc - c)) - 1) :
        board[r + k * Sign(tr - r)][c + k * Sign(tc - c)] = "-"

\* the piece standing on (r, c) attacks the square (tr, tc); the promoted
\* knight 'L' / 'l' is a knight
PieceAttacks(board, r, c, tr, tc) ==
    LET piece == board[r][c]
        kind == upper(piece)
        dr == tr - r
        dc == tc - c
    IN  /\ piece # "-"
        /\ <<dr, dc>> # <<0, 0>>
        /\ CASE kind = "P" -> dr = (IF isupper(piece) THEN -1 ELSE 1) /\ abs(dc) = 1
             [] kind \in {"N", "L"} -> {abs(dr), abs(dc)} = {1, 2}
             [] kind = "K" -> abs(dr) <= 1 /\ abs(dc) <= 1
             [] kind = "R" -> (dr = 0 \/ dc = 0) /\ ClearBetween(board, r, c, tr, tc)
             [] kind = "B" -> abs(dr) = abs(dc) /\ ClearBetween(board, r, c, tr, tc)
             [] kind = "Q" -> (dr = 0 \/ dc = 0 \/ abs(dr) = abs(dc))
                              /\ ClearBetween(board, r, c, tr, tc)
             [] OTHER -> FALSE

\* some piece of the given colour attacks the square (tr, tc)
AttackedBy(board, tr, tc, white) ==
    \E r \in 0..7, c \in 0..7 :
        /\ board[r][c] # "-"
        /\ isupper(board[r][c]) = white
        /\ PieceAttacks(board, r, c, tr, tc)

\* the king of the given colour stands on the board and is attacked
KingAttacked(board, white) ==
    \E r \in 0..7, c \in 0..7 :
        /\ board[r][c] = (IF white THEN "K" ELSE "k")
        /\ AttackedBy(board, r, c, ~white)

\* the list getValidMoves has generated when it reaches "if len(moves) == 0"
GeneratedMoves(g) ==
    KingCaptureFilter(GenerateMoves(WithAnalysis(g, checkForPinsAndChecks(g)),
                                    KingLocation(g)[1], KingLocation(g)[2]).moves)

(***************************************************************************)
(* C1                                                                      *)
(***************************************************************************)
\* what C1 compares: board grid, side to move, cached king locations, castling
\* rights, en-passant target, fifty-move counter, move history, repetition table
Position(g) ==
    <<g.board, g.white_to_move, g.white_king_location, g.black_king_location,
      g.current_castling_rights, g.enpassant_possible, g.fifty_move_counter,
      g.move_log, g.board_position_counts>>

\* C1: in every position reached by moves taken from getValidMoves, for every
\* move m the list holds (with any promotion choice), makeMove(m) followed by
\* undoMove() gives back the same board, side to move, king locations, castling
\* rights, en-passant target, fifty-move counter, move history and repetition
\* table.
C1_MakeUndoRestores ==
    fresh => \A m \in CallerMoves : Position(undoMove(makeMove(gs, m))) = Position(gs)

(***************************************************************************)
(* C2                                                                      *)
(***************************************************************************)
\* C2: after makeMove of any move getValidMoves returned (with any promotion
\* choice), the king of the side that just moved is not attacked by any enemy
\* piece.
C2_LegalMovesKeepKingSafe ==
    fresh => \A m \in CallerMoves :
                ~KingAttacked(makeMove(gs, m).board, gs.white_to_move)

(***************************************************************************)
(* C3                                                                      *)
(***************************************************************************)
\* a move from the pinned square stays on the line through the pin direction
OnPinAxis(m, pin) ==
    (m.end_row - m.start_row) * pin[4] = (m.end_col - m.start_col) * pin[3]

\* C3: every move getValidMoves returns for a piece the analyzer records as
\* pinned (in the same call: the analyzer's result depends only on the board,
\* the side to move and the king cache, none of which the call changes) moves
\* in the recorded pin direction or its reverse; a knight has no such move, so
\* a pinned knight gets none.
C3_PinnedPiecesStayOnAxis ==
    fresh =>
        \A i \in 1..Len(valid_moves) :
            \A j \in 1..Len(checkForPinsAndChecks(gs).pins) :
                (valid_moves[i].start_row = checkForPinsAndChecks(gs).pins[j][1]
                 /\ valid_moves[i].start_col = checkForPinsAndChecks(gs).pins[j][2])
                => OnPinAxis(valid_moves[i], checkForPinsAndChecks(gs).pins[j])

(***************************************************************************)
(* C4                                                                      *)
(***************************************************************************)
\* the conditions of chess for the castle move m of the side to move of g
CastleAllowed(g, m) ==
    LET white == g.white_to_move
        home == IF white THEN 7 ELSE 0
        kingside == m.end_col = 6
        rook_col == IF kingside THEN 7 ELSE 0
        right == IF white
                 THEN (IF kingside THEN g.current_castling_rights.wks
                                   ELSE g.current_castling_rights.wqs)
                 ELSE (IF kingside THEN g.current_castling_rights.bks
                                   ELSE g.current_castling_rights.bqs)
        between == IF kingside THEN 5..6 ELSE 1..3
        king_path == IF kingside THEN 4..6 ELSE 2..4
    IN  /\ m.start_row = home /\ m.start_col = 4 /\ m.end_row = home
        /\ m.end_col \in {2, 6}
        /\ g.board[home][4] = (IF white THEN "K" ELSE "k")
        /\ g.board[home][rook_col] = (IF white THEN "R" ELSE "r")
        /\ right
        /\ \A c \in between : g.board[home][c] = "-"
        /\ \A c \in king_path : ~AttackedBy(g.board, home, c, ~white)

\* C4: getValidMoves returns a castle move only if the king and the matching
\* rook are on their home squares, the right is held, the squares between them
\* are empty and none of the king's start, transit and destination squares is
\* attacked by an enemy piece (a pawn attacking an empty square included).
C4_CastleOnlyWhenAllowed ==
    fresh => \A i \in 1..Len(valid_moves) :
                valid_moves[i].is_castle_move => CastleAllowed(gs, valid_moves[i])

(***************************************************************************)
(* C5                                                                      *)
(***************************************************************************)
\* the rights a move must have revoked: both of the colour for a king move, the
\* one of the corner for a rook leaving its home square or captured on it
RevokedBy(m, rights) ==
    /\ m.piece_moved = "K" => ~rights.wks /\ ~rights.wqs
    /\ m.piece_moved = "k" => ~rights.bks /\ ~rights.bqs
    /\ (m.piece_moved = "R" /\ m.start_row = 7 /\ m.start_col = 0) => ~rights.wqs
    /\ (m.piece_moved = "R" /\ m.start_row = 7 /\ m.start_col = 7) => ~rights.wks
    /\ (m.piece_moved = "r" /\ m.start_row = 0 /\ m.start_col = 0) => ~rights.bqs
    /\ (m.piece_moved = "r" /\ m.start_row = 0 /\ m.start_col = 7) => ~rights.bks
    /\ (m.piece_captured = "R" /\ m.end_row = 7 /\ m.end_col = 0) => ~rights.wqs
    /\ (m.piece_captured = "R" /\ m.end_row = 7 /\ m.end_col = 7) => ~rights.wks
    /\ (m.piece_captured = "r" /\ m.end_row = 0 /\ m.end_col = 0) => ~rights.bqs
    /\ (m.piece_captured = "r" /\ m.end_row = 0 /\ m.end_col = 7) => ~rights.bks

\* C5: after makeMove the castling rights the move revokes are false, and a
\* revoked right stays false in every later position: every move of the
\* history has its rights revoked in the current rights.
C5_MakeMoveRevokesRights ==
    \A i \in 1..Len(gs.move_log) : RevokedBy(gs.move_log[i], gs.current_castling_rights)

(***************************************************************************)
(* C6                                                                      *)
(***************************************************************************)
EnemySlider(g, piece) ==
    upper(piece) \in {"R", "Q"} /\ isupper(piece) = ~g.white_to_move

\* the en-passant capture m would open the rank: the king of the side to move
\* stands on the rank of the two pawns, the squares between the king and the
\* pawns are empty, and the first non-empty square beyond the pawns holds an
\* enemy rook or queen
OpensRank(g, m) ==
    LET row == m.start_row
        lo == IF m.start_col < m.end_col THEN m.start_col ELSE m.end_col
        hi == IF m.start_col < m.end_col THEN m.end_col ELSE m.start_col
    IN  \E kc \in 0..7 :
            /\ g.board[row][kc] = (IF g.white_to_move THEN "K" ELSE "k")
            /\ \/ /\ kc < lo
                  /\ \A c \in (kc + 1)..(lo - 1) : g.board[row][c] = "-"
                  /\ \E c \in (hi + 1)..7 :
                        /\ EnemySlider(g, g.board[row][c])
                        /\ \A c2 \in (hi + 1)..(c - 1) : g.board[row][c2] = "-"
               \/ /\ kc > hi
                  /\ \A c \in (hi + 1)..(kc - 1) : g.board[row][c] = "-"
                  /\ \E c \in 0..(lo - 1) :
                        /\ EnemySlider(g, g.board[row][c])
                        /\ \A c2 \in (c + 1)..(lo - 1) : g.board[row][c2] = "-"

\* C6: getValidMoves does not return an en-passant capture that opens the rank
\* of the mover's king to an enemy rook or queen, whatever stands behind that
\* rook or queen.
C6_EnPassantNeverOpensRank ==
    fresh => \A i \in 1..Len(valid_moves) :
                valid_moves[i].is_enpassant_move => ~OpensRank(gs, valid_moves[i])

(***************************************************************************)
(* C7                                                                      *)
(***************************************************************************)
\* int(text) for a sequence of digit characters
RECURSIVE int(_)
int(text) ==
    IF text = <<>> THEN 0 ELSE 10 * int(Front(text)) + DigitValue(Last(text))

\* what a six-field position text denotes: board, side to move, the set of
\* castling rights, en-passant target, halfmove clock, fullmove number
Denotation(text) ==
    [board |-> fen_to_board(text),
     active |-> split(text)[2],
     castling |-> {split(text)[3][i] : i \in 1..Len(split(text)[3])} \ {"-"},
     enpassant |-> split(text)[4],
     halfmove |-> int(split(text)[5]),
     fullmove |-> int(split(text)[6])]

\* C7: GameState(text) followed by update_fen gives a text that denotes the
\* same board, side to move, castling rights, en-passant target, halfmove
\* clock and fullmove number as the text the GameState was constructed from.
C7_FenRoundTrip ==
    Denotation(update_fen(NewGameState(fen_in))) = Denotation(fen_in)

(***************************************************************************)
(* C8                                                                      *)
(***************************************************************************)
\* one of the three draw conditions holds
DrawCondition(g) ==
    insufficientMaterial(g) \/ checkThreefoldRepetition(g) \/ g.fifty_move_counter >= 100

C9_CheckmateDetected ==
    /\ ~(gs.checkmate /\ gs.stalemate)
    /\ (last_op = "getValidMoves" /\ GeneratedMoves(gs) = <<>>
        /\ KingAttacked(gs.board, gs.white_to_move))
       => (valid_moves = <<>> /\ gs.checkmate /\ ~gs.stalemate)

\* C9 witness: after 1. f3 e5 2. g4 Qh4, getValidMoves has flagged checkmate
C9_FoolsMateFlagged ==
    /\ fen_in = FenFoolsMate
    /\ last_op = "getValidMoves"
    /\ Len(gs.move_log) = 1
    /\ gs.move_log[1].piece_moved = "q" /\ gs.move_log[1].end_row = 4
    /\ gs.move_log[1].end_col = 7
    /\ valid_moves = <<>>
    /\ gs.checkmate /\ ~gs.stalemate

(***************************************************************************)
(* C10                                                                     *)
(***************************************************************************)
\* C10: undoMove() on an empty move history changes nothing: board, side to
\* move, king locations, castling rights, en-passant target, fifty-move
\* counter, repetition table, the undo logs and every other attribute.
C10_UndoOnEmptyHistoryIsNoOp ==
    gs.move_log = <<>> => undoMove(gs) = gs

\* C10 witness: undoMove() has been called on an empty history, after a move
\* was made and taken back (current_fen is set by makeMove and undoMove only)
C10_UndoneOnEmptyHistory ==
    /\ last_op = "undoMove"
    /\ log_before = 0
    /\ gs.move_log = <<>>
    /\ gs.current_fen # <<>>

(***************************************************************************)
(* C11                                                                     *)
(***************************************************************************)
\* C11: findBestMove puts exactly one item on the result queue before it
\* returns and nothing while it runs, on every path (mate pre-check, root
\* search, fallback); the item is a move of the supplied list when the list
\* is non-empty and None when it is empty.
C11_OneItemDelivered ==
    /\ call.pc # "done" => return_queue = <<>>
    /\ call.pc = "done" =>
          /\ Len(return_queue) = 1
          /\ valid_moves = <<>> => MoveEq(return_queue[1], None)
          /\ valid_moves # <<>> =>
                \E i \in 1..Len(valid_moves) :
                    /\ MoveEq(valid_moves[i], return_queue[1])
                    /\ valid_moves[i] = return_queue[1]

\* C11 witness: findBestMove has returned after a root search that ran
\* minimax, with a move of the list on the queue
C11_DeliveredAfterRootSearch ==
    /\ call.pc = "done"
    /\ _tt # <<>>
    /\ call.i = Len(valid_moves) + 1
    /\ Len(return_queue) = 1
    /\ MoveEq(return_queue[1], call.best_move)

(***************************************************************************)
(* C12                                                                     *)
(***************************************************************************)
\* C12: when findBestMove returns (requested depth >= 1), the board grid,
\* side to move, cached king locations, castling rights, en-passant target,
\* fifty-move counter, repetition table and move history of the position are
\* equal to their values before the call.
C12_SearchRestoresPosition ==
    call.pc = "done" => Position(gs) = Position(gs_at_call)

(***************************************************************************)
(* C13                                                                     *)
(***************************************************************************)
\* the list findBestMove was called with: what getValidMoves returned for the
\* position at the call
SuppliedMoves == getValidMoves(gs_at_call).moves

\* the places in the list of the moves after which the opponent has no legal
\* reply and is in check, in the position g
MatingPlaces(g, moves) ==
    {i \in 1..Len(moves) :
        \E res \in {getValidMoves(makeMove(g, moves[i]))} :
            res.moves = <<>> /\ inCheck(res.g)}

FirstPlace(places) == CHOOSE i \in places : \A j \in places : i <= j

\* the call was answered by the move at the first of the places, at once
AnsweredAtOnce(moves, places) ==
    places # {} =>
        /\ call.pc = "done"
        /\ stack = <<>>
        /\ Len(return_queue) = 1
        /\ MoveEq(return_queue[1], moves[FirstPlace(places)])
        /\ _tt = <<>> /\ _killers = <<>> /\ _history = <<>>

\* C13: if some move of the supplied list leaves the opponent with no legal
\* reply and in check, findBestMove (requested depth >= 1) delivers the first
\* such move in list order and returns at once: no minimax call is made and
\* the transposition, killer and history tables are not written.
C13_FirstMateDelivered ==
    call.pc # "idle" => AnsweredAtOnce(SuppliedMoves, MatingPlaces(gs_at_call, SuppliedMoves))

(***************************************************************************)
(* C14                                                                     *)
(***************************************************************************)
\* the deepening the documentation promises for a position with that many
\* pieces
Deepening(piece_count) ==
    IF piece_count <= 4 THEN 4 ELSE IF piece_count <= 7 THEN 2 ELSE 0

\* C14: for every requested depth d, the depth findBestMove searches to is
\* d + 4 when the position has at most 4 pieces, d + 2 when it has 5 to 7
\* pieces, and d otherwise.
C14_DepthSelection ==
    [][call.pc = "idle" /\ call'.pc # "idle"
          => call'.depth = call.depth + Deepening(PieceCount(gs.board))]_vars

(***************************************************************************)
(* C15                                                                     *)
(***************************************************************************)
SetMax(S) == CHOOSE x \in S : \A y \in S : x >= y
SetMin(S) == CHOOSE x \in S : \A y \in S : x <= y

\* the depth-d minimax value of a position for the maximizing flag max_player:
\* the terminal value when there is no legal move, the leaf evaluation at
\* depth 0, else the largest (smallest) value of the positions after each
\* legal move, each move made on a copy of the position
RECURSIVE TrueMinimax(_, _, _)
TrueValue(res, d, max_player) ==
    IF res.moves = <<>> THEN TerminalValue(inCheck(res.g), max_player)
    ELSE IF d = 0 THEN Evaluate(res.g)
    ELSE IF max_player
    THEN SetMax({TrueMinimax(makeMove(res.g, res.moves[i]), d - 1, FALSE) :
                    i \in 1..Len(res.moves)})
    ELSE SetMin({TrueMinimax(makeMove(res.g, res.moves[i]), d - 1, TRUE) :
                    i \in 1..Len(res.moves)})

TrueMinimax(g, d, max_player) == TrueValue(getValidMoves(g), d, max_player)

\* the position the k-th minimax call in progress was made for: the position
\* at the findBestMove call, the root move and the moves of the calls above it
\* made on it one after the other (the side flipped for a null-move search)
RECURSIVE NodeOf(_)
NodeOf(k) ==
    IF k = 1 THEN makeMove(gs_at_call, valid_moves[call.i])
    ELSE IF stack[k - 1].pc = "null"
    THEN [getValidMoves(NodeOf(k - 1)).g EXCEPT !.white_to_move = ~@]
    ELSE makeMove(getValidMoves(NodeOf(k - 1)).g, stack[k - 1].legal[stack[k - 1].i])

\* the entry is consistent with the value v
Consistent(entry, v) ==
    \/ entry.flag = "EXACT" /\ entry.value = v
    \/ entry.flag = "LOWER" /\ entry.value <= v
    \/ entry.flag = "UPPER" /\ entry.value >= v

\* the innermost minimax call has just stored an entry and returned, and its
\* position maps to the key it stored under
JustStored(f, node) ==
    /\ f.pc = "ret"
    /\ f.exit \in {"terminal", "leaf", "search"}
    /\ Key(node, f.d, f.max_player) = f.key

\* C15: an entry stored for (position encoding, remaining depth d, maximizing
\* flag) is consistent with the depth-d minimax value v of a position that
\* maps to the key: EXACT means value = v, LOWER value <= v, UPPER value >= v.
C15_StoredEntriesSound ==
    stack # <<>> /\ JustStored(Last(stack), NodeOf(Len(stack)))
        => Consistent(_tt[Last(stack).key],
                      TrueMinimax(NodeOf(Len(stack)), Last(stack).d, Last(stack).max_player))

(***************************************************************************)
(* C16                                                                     *)
(***************************************************************************)
\* the two positions differ in nothing the leaf evaluation looks at but the
\* distance of a king from the centre: the piece-square sum and the distance
\* between the kings are the same
AllElseFixed(node, other, t) ==
    /\ ScoreFrom(node.board, 0, t) = ScoreFrom(other.board, 0, t)
    /\ abs(node.white_king_location[1] - node.black_king_location[1])
       + abs(node.white_king_location[2] - node.black_king_location[2])
       = abs(other.white_king_location[1] - other.black_king_location[1])
         + abs(other.white_king_location[2] - other.black_king_location[2])

\* the king on sq is farther from the centre than the king on from
Farther(sq, from) == HypotSq(sq[1], sq[2]) > HypotSq(from[1], from[2])

\* the leaf evaluation has just returned score for the position in gs
LeafReturned == stack # <<>> /\ Last(stack).pc = "ret" /\ Last(stack).exit = "leaf"

\* with White ahead no position with the black king farther out scores lower
WhiteAheadRewarded(node, rook, score) ==
    \A sq \in EvalBlackKings :
        (/\ Apart(node.white_king_location, sq)
         /\ Farther(sq, node.black_king_location)
         /\ AllElseFixed(node, EvalNode(node.white_king_location, sq, rook),
                         StageNum(NonKingCount(node.board))))
        => Evaluate(EvalNode(node.white_king_location, sq, rook)) >= score

\* with Black ahead no position with the white king farther out scores higher
BlackAheadRewarded(node, rook, score) ==
    \A sq \in EvalWhiteKings :
        (/\ Apart(sq, node.black_king_location)
         /\ Farther(sq, node.white_king_location)
         /\ AllElseFixed(node, EvalNode(sq, node.black_king_location, rook),
                         StageNum(NonKingCount(node.board))))
        => Evaluate(EvalNode(sq, node.black_king_location, rook)) <= score

\* C16: when material is unequal and the stage is positive, the leaf
\* evaluation rewards the side ahead for pushing the opposing king from the
\* centre: with White ahead a black king farther out, all else fixed, never
\* lowers the score; with Black ahead a white king farther out never raises it.
C16_KingPushedFromCentre ==
    LeafReturned /\ StageNum(NonKingCount(gs.board)) > 0
        => /\ MatFrom(gs.board, 0) > 0
                => WhiteAheadRewarded(gs, gs.board[EvalRook[1]][EvalRook[2]], Last(stack).ret)
           /\ MatFrom(gs.board, 0) < 0
                => BlackAheadRewarded(gs, gs.board[EvalRook[1]][EvalRook[2]], Last(stack).ret)

(***************************************************************************)
(* C17                                                                     *)
(***************************************************************************)
\* the legal moves of the initial position have just been generated
InitialMovesGenerated ==
    fen_in = FenInitial /\ gs.move_log = <<>> /\ last_op = "getValidMoves" /\ fresh

\* the number of moves of the list made by the piece p
MovesOf(moves, p) == Cardinality({i \in 1..Len(moves) : moves[i].piece_moved = p})

\* C17: the initial standard position (INITIAL_FEN, White to move) has
\* exactly 20 legal moves, 16 pawn moves and 4 knight moves and no others,
\* and neither checkmate nor stalemate is flagged.
C17_InitialPositionTwentyMoves ==
    InitialMovesGenerated
        => /\ Len(valid_moves) = 20
           /\ MovesOf(valid_moves, "P") = 16
           /\ MovesOf(valid_moves, "N") = 4
           /\ Cardinality({valid_moves[i].moveID : i \in 1..Len(valid_moves)}) = 20
           /\ ~gs.checkmate
           /\ ~gs.stalemate

C17_InitialMovesListed ==
    InitialMovesGenerated /\ Len(gs.board_key_log) = 0 /\ MovesOf(valid_moves, "N") = 4

(***************************************************************************)
(* C18                                                                     *)
(***************************************************************************)
\* the window <<alpha0, beta0>> the k-th minimax call in progress was called
\* with: the full window from findBestMove, else the window its caller chose
CalledWindow(k) ==
    IF k = 1 THEN <<-inf, inf>>
    ELSE IF stack[k - 1].pc = "null"
    THEN <<-stack[k - 1].beta, PlusOne(-stack[k - 1].beta)>>
    ELSE ChildWindow(stack[k - 1], stack[k - 1].pc)

\* the bound kind that belongs to value for the window
KindFor(value, window) ==
    IF value <= window[1] THEN "UPPER"
    ELSE IF value >= window[2] THEN "LOWER"
    ELSE "EXACT"

\* the innermost minimax call has finished its move loop, stored and returned
LoopFinished == stack # <<>> /\ Last(stack).pc = "ret" /\ Last(stack).exit = "search"

\* C18: when minimax finishes its move loop at a node entered with window
\* (alpha0, beta0), maximizing or minimizing, the stored bound kind is UPPER
\* iff value <= alpha0, LOWER iff value >= beta0 and EXACT iff
\* alpha0 < value < beta0, for the bounds the node was called with.
C18_BoundKindOnStore ==
    LoopFinished
        => /\ _tt[Last(stack).key].value = Last(stack).ret
           /\ _tt[Last(stack).key].flag = KindFor(Last(stack).ret, CalledWindow(Len(stack)))

(***************************************************************************)
(* C19                                                                     *)
(***************************************************************************)
\* a step in which the caller of the returning search leaves its move loop
\* by a cutoff (alpha >= beta) caused by the move it had just searched
CutoffStep ==
    /\ Len(stack) >= 2
    /\ Len(stack') = Len(stack) - 1
    /\ Last(stack').pc = "ret"
    /\ Last(stack').exit = "search"
    /\ Last(stack').alpha >= Last(stack').beta

\* the effect on the killer slots of depth d and on the history table that
\* belongs to a cutoff by the move m
CutoffEffect(d, m) ==
    IF m.is_capture
    THEN /\ Killers(_killers', d) = Killers(_killers, d)
         /\ _history' = _history
    ELSE /\ Len(Killers(_killers', d)) = 2
         /\ MoveEq(Killers(_killers', d)[1], m)
         /\ ~MoveEq(Killers(_killers, d)[1], m)
                => Killers(_killers', d)[2] = Killers(_killers, d)[1]
         /\ History(_history', HistoryKey(d, m)) = History(_history, HistoryKey(d, m)) + 2 ^ d

\* C19: killer and history updates happen only for non-capturing cutoff
\* moves: a cutoff by a capture changes neither that depth's killer slots nor
\* any history entry; a cutoff by a non-capture m makes m killer slot 0 of
\* that depth (the previous slot 0 moving to slot 1, two slots at most) and
\* adds 2^depth to the history entry of m.
C19_CutoffUpdatesOnlyForQuietMoves ==
    [][CutoffStep => CutoffEffect(Last(stack').d, Last(stack').legal[Last(stack').i])]_vars

(***************************************************************************)
(* C20                                                                     *)
(***************************************************************************)
\* every minimax call in progress has a remaining depth of 0 or more, and a
\* call that waits for another one is above depth 0 and has legal moves
DepthsInRange ==
    \A k \in 1..Len(stack) :
        /\ stack[k].d >= 0
        /\ k < Len(stack) => stack[k].d > 0 /\ stack[k].legal # <<>>

\* a step of the search can be taken: findBestMove can be entered, the
\* innermost minimax call can start, or it has returned and its caller resumes
CanStep ==
    \/ call.pc = "idle" /\ fresh
    \/ /\ call.pc \in {"id", "root"}
       /\ stack # <<>>
       /\ \/ Last(stack).pc = "enter"
          \/ Last(stack).pc = "ret"
             /\ Len(stack) >= 2 => Last(Front(stack)).pc \in {"null", "first", "scout", "full"}

\* findBestMove has returned, its result delivered
Returned == call.pc = "done" /\ stack = <<>> /\ Len(return_queue) = 1

C22_UndoLogsAligned ==
    /\ Len(gs.fifty_move_log) = Len(gs.move_log)
    /\ Len(gs.board_key_log) = Len(gs.move_log)
    /\ Len(gs.enpassant_possible_log) = Len(gs.move_log) + 1
    /\ Len(gs.castle_rights_log) = Len(gs.move_log) + 1

(***************************************************************************)
(* C23                                                                     *)
(***************************************************************************)
\* the squares of the board the piece p stands on
SquaresOf(board, p) == {s \in Squares : board[s[1]][s[2]] = p}

\* C23: from a parsed position with exactly one king of each colour, after
\* every completed makeMove, undoMove and getValidMoves call, for moves taken
\* from the legal moves, the cached white and black king locations are the
\* squares where 'K' and 'k' stand on the board.
C23_KingCacheMatchesBoard ==
    /\ SquaresOf(gs.board, "K") = {gs.white_king_location}
    /\ SquaresOf(gs.board, "k") = {gs.black_king_location}

\* the white king has just castled and the cache has followed it
C23_KingMoved ==
    /\ last_op = "makeMove"
    /\ gs.move_log # <<>>
    /\ Last(gs.move_log).piece_moved = "K"
    /\ Last(gs.move_log).is_castle_move
    /\ gs.white_king_location = <<Last(gs.move_log).end_row, Last(gs.move_log).end_col>>

(***************************************************************************)
(* C24                                                                     *)
(***************************************************************************)
\* the two moves go from the same square to the same square
SameSquares(m1, m2) ==
    /\ m1.start_row = m2.start_row
    /\ m1.start_col = m2.start_col
    /\ m1.end_row = m2.end_row
    /\ m1.end_col = m2.end_col

\* C24: move identity is unambiguous: the list getValidMoves returns never
\* holds two moves with the same start and end square, so equality by moveID
\* never identifies two moves with different flags.
C24_NoTwoMovesOnSameSquares ==
    fresh => \A i, j \in 1..Len(valid_moves) :
                (SameSquares(valid_moves[i], valid_moves[j])
                 \/ MoveEq(valid_moves[i], valid_moves[j])) => i = j

\* the list holds a queen's moves along its row and along its column next to
\* a king's move
C24_QueenAndKingMovesListed ==
    /\ fresh
    /\ \E i, j, k \in 1..Len(valid_moves) :
        /\ upper(valid_moves[i].piece_moved) = "Q"
        /\ upper(valid_moves[j].piece_moved) = "Q"
        /\ valid_moves[i].start_row = valid_moves[i].end_row
        /\ valid_moves[j].start_col = valid_moves[j].end_col
        /\ upper(valid_moves[k].piece_moved) = "K"

(***************************************************************************)
(* C25                                                                     *)
(***************************************************************************)
\* m is a pawn's advance by two squares
TwoSquareAdvance(m) == lower(m.piece_moved) = "p" /\ abs(m.start_row - m.end_row) = 2

\* the square the pawn passed over
PassedOver(m) == <<(m.start_row + m.end_row) \div 2, m.start_col>>

\* the search has just made a move on gs and called minimax for the position
\* (a null-move search is called without a move being made)
MoveJustMade ==
    /\ stack # <<>>
    /\ Last(stack).pc = "enter"
    /\ Len(stack) >= 2 => Last(Front(stack)).pc # "null"
    /\ gs.move_log # <<>>

\* C25: after makeMove(m) the en-passant target is the square the pawn
\* passed over if m is a two-square pawn advance and empty otherwise; so a
\* target set by one ply is gone after the next ply unless that ply is a
\* two-square pawn advance itself.
C25_EnPassantTargetLifecycle ==
    MoveJustMade
        => gs.enpassant_possible =
              IF TwoSquareAdvance(Last(gs.move_log)) THEN PassedOver(Last(gs.move_log))
              ELSE <<>>

\* a ply that is no two-square advance has followed one that is, and the
\* target that one set is gone
C25_TargetGoneAfterNextPly ==
    /\ MoveJustMade
    /\ Len(gs.move_log) >= 2
    /\ TwoSquareAdvance(gs.move_log[Len(gs.move_log) - 1])
    /\ ~TwoSquareAdvance(Last(gs.move_log))
    /\ gs.enpassant_possible = <<>>

(***************************************************************************)
(* C26                                                                     *)
(***************************************************************************)
\* the squares of the enemy pieces that attack the king of the side to move
Attackers(g) ==
    LET king == IF g.white_to_move THEN "K" ELSE "k"
    IN  {s \in Squares :
            /\ g.board[s[1]][s[2]] # "-"
            /\ isupper(g.board[s[1]][s[2]]) # g.white_to_move
            /\ \E k \in SquaresOf(g.board, king) :
                   PieceAttacks(g.board, s[1], s[2], k[1], k[2])}

\* the square whose piece the move m takes off the board, if it takes one
CapturedSquare(m) ==
    IF m.is_enpassant_move THEN <<m.start_row, m.end_col>> ELSE <<m.end_row, m.end_col>>

\* the square t lies strictly between the squares a and k of one line
StrictlyBetween(t, a, k) ==
    LET n == Max(abs(k[1] - a[1]), abs(k[2] - a[2]))
    IN  /\ k[1] - a[1] = 0 \/ k[2] - a[2] = 0 \/ abs(k[1] - a[1]) = abs(k[2] - a[2])
        /\ \E i \in 1..(n - 1) :
               t = <<a[1] + i * Sign(k[1] - a[1]), a[2] + i * Sign(k[2] - a[2])>>

\* the move m answers the check given from the square a
AnswersCheck(g, m, a) ==
    \/ m.is_capture /\ CapturedSquare(m) = a
    \/ /\ upper(g.board[a[1]][a[2]]) \in {"R", "B", "Q"}
       /\ \E k \in SquaresOf(g.board, IF g.white_to_move THEN "K" ELSE "k") :
              StrictlyBetween(<<m.end_row, m.end_col>>, a, k)

\* C26: in every reachable position where exactly one enemy piece attacks the
\* king of the side to move, every move getValidMoves returns that is not a
\* king move captures that piece or, if it is a rook, bishop or queen, lands
\* strictly between it and the king, and no returned move is a castle; where
\* two or more pieces attack the king, every returned move is a king move.
C26_CheckResponse ==
    fresh =>
        /\ Cardinality(Attackers(gs)) = 1 =>
              \A i \in 1..Len(valid_moves) :
                  /\ ~valid_moves[i].is_castle_move
                  /\ upper(valid_moves[i].piece_moved) # "K" =>
                        \A a \in Attackers(gs) : AnswersCheck(gs, valid_moves[i], a)
        /\ Cardinality(Attackers(gs)) >= 2 =>
              \A i \in 1..Len(valid_moves) : upper(valid_moves[i].piece_moved) = "K"

(***************************************************************************)
(* C28                                                                     *)
(***************************************************************************)
\* C28: in every position reachable by legal play, a promotion to knight
\* (stored as 'L' / 'l') included, right after getValidMoves the in_check
\* attribute set from checkForPinsAndChecks equals inCheck(), which asks
\* squareUnderAttack about the king square of the side to move.
C28_CheckTestsAgree ==
    fresh => (gs.in_check = inCheck(gs))

(***************************************************************************)
(* C29                                                                     *)
(***************************************************************************)
\* the position g after the moves of the list from place n on, each made by
\* makeMove and none undone
RECURSIVE Replay(_, _, _)
Replay(g, moves, n) ==
    IF n > Len(moves) THEN g ELSE Replay(makeMove(g, moves[n]), moves, n + 1)

\* the board the moves made since findBestMove was called and not yet undone
\* lead to from the board at the call
BoardOfLine == Replay(gs_at_call, gs.move_log, Len(gs_at_call.move_log) + 1).board

\* C29: every undoMove performed by findBestMove or minimax (requested depth
\* >= 1, null-move searches included) restores the board grid to its content
\* before the matching makeMove, and creates no piece on a square that was
\* empty before: at every call and return of minimax and when findBestMove
\* returns, the board is the board at the call of findBestMove with exactly
\* the moves made that are not yet undone.
C29_MakeUndoInverseInSearch ==
    call.pc # "idle" => gs.board = BoardOfLine

(***************************************************************************)
(* C30                                                                     *)
(***************************************************************************)
\* the step is a findBestMove call that returns from its mate-in-1 loop
MateShortcutTaken ==
    /\ call.pc = "idle"
    /\ call'.pc = "done"
    /\ MateLoop(gs, valid_moves, 1).found > 0

\* in the position g the move m gives checkmate: after makeMove(m) and
\* getValidMoves() the checkmate flag is set and the stalemate flag is not
RealCheckmate(g, m) ==
    \E res \in {getValidMoves(makeMove(g, m))} :
        /\ res.moves = <<>>
        /\ res.g.checkmate
        /\ ~res.g.stalemate

\* C30: whenever findBestMove returns through the mate-in-1 shortcut with the
\* move m, the position after makeMove(m) has the checkmate flag true and the
\* stalemate flag false after getValidMoves(): the empty reply list is not
\* caused by insufficient material, repetition or the fifty-move rule.
C30_MateShortcutIsCheckmate ==
    [][MateShortcutTaken => RealCheckmate(gs', return_queue'[1])]_vars

(***************************************************************************)
(* C21                                                                     *)
(***************************************************************************)
\* the step is the return of a minimax call to the minimax call that made it,
\* which returns in its turn
ReturnedThrough ==
    /\ Len(stack) >= 2
    /\ Last(stack).pc = "ret"
    /\ Len(stack') = Len(stack) - 1
    /\ Last(stack').pc = "ret"

\* the scores the caller has from the calls it made: the value of the call
\* that returns and, in the move loop, the best value of the calls before it
ScoresBelow(caller, callee) ==
    IF caller.pc = "null" THEN {callee.ret} ELSE {callee.ret, caller.value}

\* C21: all scores are White's throughout the recursion: the value a minimax
\* call returns, a return through a null-move cutoff included, is the score
\* of a position of its subtree as the call below returned it (a leaf
\* evaluation, a +/-CHECKMATE terminal value or 0) and never the negation of
\* such a score; so if every value below a node is positive, the node's value
\* is positive.
C21_ScoresKeepWhitePerspective ==
    [][ReturnedThrough =>
          Last(stack').ret \in ScoresBelow(Last(Front(stack)), Last(stack))]_vars

(***************************************************************************)
(* C27                                                                     *)
(***************************************************************************)
\* the minimax call in progress has returned from its terminal test
TerminalReturned ==
    /\ stack # <<>>
    /\ Last(stack).pc = "ret"
    /\ Last(stack).exit = "terminal"

\* the side to move of g is checkmated: it has no legal move and its king is
\* attacked
Checkmated(g) ==
    /\ GeneratedMoves(g) = <<>>
    /\ KingAttacked(g.board, g.white_to_move)

\* C27: minimax returns the checkmate sentinel, -CHECKMATE with White to move
\* and +CHECKMATE with Black to move, only for a node whose side to move is
\* checkmated (no legal move, king attacked, checkmate flag set); for every
\* node whose move list is empty because of stalemate, insufficient material,
\* repetition or the fifty-move rule it returns 0, also when the side to move
\* is in check.
C27_TerminalScoring ==
    TerminalReturned =>
        IF Checkmated(gs)
        THEN /\ gs.checkmate
             /\ Last(stack).ret = (IF gs.white_to_move THEN -CHECKMATE ELSE CHECKMATE)
        ELSE Last(stack).ret = 0

====
